---- MODULE Spec2Model ----
(***************************************************************************)
(* Living-Docs backend: the document ingestion pipeline and the document   *)
(* status state machine.                                                   *)
(*                                                                         *)
(* Processes:                                                              *)
(*   - the request handlers upload_document, reingest_document and         *)
(*     delete_document (app/api/documents.py);                             *)
(*   - the background runs process_document_background ->                  *)
(*     IngestionService.ingest_document (app/services/ingestion.py), which *)
(*     Starlette executes in its thread pool after the response, so a run  *)
(*     interleaves with the handlers and with other runs at every call to  *)
(*     the relational store or the vector store.                           *)
(***************************************************************************)
EXTENDS Integers, Sequences, FiniteSets, TLC

(***************************************************************************)
(* Bounds of the model.                                                    *)
(***************************************************************************)
MaxTasks == 2
MaxPages == 1
MaxRuns == 1
MaxQueries == 2
MaxChunks == 5
MaxMarkers == 2
MaxText == 5
MaxChunkSize == 3
MaxScenarioPages == 3
MaxPageUnits == 5
MaxCandidates == 3
MaxScore == 2
MaxTopK == 3
MaxCalls == 2
MaxExtraDocuments == 2
MaxStatsDocuments == 3

Docs == {"d1"}
Projects == {"p1"}

(***************************************************************************)
(* models.DocumentStatus                                                   *)
(***************************************************************************)
PENDING == "pending"
PROCESSING == "processing"
COMPLETED == "completed"
FAILED == "failed"

DocumentStatus == {PENDING, PROCESSING, COMPLETED, FAILED}

(***************************************************************************)
(* Status messages.  A message is the pair of a fixed text and the text of *)
(* the exception it was formatted with (f"<prefix>{str(e)}").              *)
(***************************************************************************)
NoneMsg == [prefix |-> "", detail |-> ""]
Msg(text) == [prefix |-> text, detail |-> ""]

ErrorKinds == {"UnsupportedFileTypeError", "DocumentLoadError", "ChunkingError",
               "VectorStoreError", "Exception"}

\* The text of an exception of kind k.
StrOf(k) == "str(" \o k \o ")"

\* Except clauses without the one for ChunkingError.
ErrorPrefixWithoutChunking(k) ==
    CASE k = "UnsupportedFileTypeError" -> "Unsupported file type: "
      [] k = "DocumentLoadError" -> "Failed to load document: "
      [] k = "VectorStoreError" -> "Failed to store in vector database: "
      [] OTHER -> "Unexpected error during ingestion: "

\* The except clauses of ingest_document, in their textual order.
ErrorPrefix(k) ==
    CASE k = "UnsupportedFileTypeError" -> "Unsupported file type: "
      [] k = "DocumentLoadError" -> "Failed to load document: "
      [] k = "ChunkingError" -> "Failed to chunk document: "
      [] k = "VectorStoreError" -> "Failed to store in vector database: "
      [] OTHER -> "Unexpected error during ingestion: "

ErrorMsg(k) == [prefix |-> ErrorPrefix(k), detail |-> StrOf(k)]

(***************************************************************************)
(* The documents table.                                                    *)
(***************************************************************************)
NoDoc == [exists |-> FALSE, project_id |-> "none", status |-> "none",
          status_message |-> NoneMsg, chunk_count |-> 0, page_count |-> 0,
          character_count |-> 0, processed_at |-> FALSE]

\* crud.create_document with the column defaults of models.Document
\* (page_count and character_count are NULL, written 0 here).
NewDocument(p) == [exists |-> TRUE, project_id |-> p, status |-> PENDING,
                   status_message |-> NoneMsg, chunk_count |-> 0,
                   page_count |-> 0, character_count |-> 0,
                   processed_at |-> FALSE]

None == -1

\* An update that records the status only when the run begins, and drops
\* COMPLETED and FAILED.
UpdateDocumentStatusWithoutTerminal(doc, status, message, chunk_count, page_count, character_count) ==
    [doc EXCEPT
        !.status = IF status = PROCESSING THEN status ELSE @,
        !.status_message = message]

\* crud.update_document_status: the record after the update.
UpdateDocumentStatus(doc, status, message, chunk_count, page_count, character_count) ==
    [doc EXCEPT
        !.status = status,
        !.status_message = message,
        !.chunk_count = IF chunk_count # None THEN chunk_count ELSE @,
        !.page_count = IF page_count # None THEN page_count ELSE @,
        !.character_count = IF character_count # None THEN character_count ELSE @,
        !.processed_at = IF status = COMPLETED THEN TRUE ELSE @]

\* A reset that leaves the message and the processing time in place.
ResetDocumentForReingestionKeepingMessage(doc) ==
    [doc EXCEPT
        !.status = PENDING,
        !.chunk_count = 0]

\* crud.reset_document_for_reingestion: the record after the reset.
ResetDocumentForReingestion(doc) ==
    [doc EXCEPT
        !.status = PENDING,
        !.status_message = NoneMsg,
        !.chunk_count = 0,
        !.processed_at = FALSE]

(***************************************************************************)
(* Loader and chunker outcomes.                                            *)
(***************************************************************************)
RECURSIVE SumSeq(_)
SumSeq(s) == IF s = <<>> THEN 0 ELSE Head(s) + SumSeq(Tail(s))

\* loader.load returns a list of pages; a page is modelled by its length.
LoaderOutputs == UNION {[1..n -> {1}] : n \in 0..MaxPages}

\* The exceptions each stage raises; an embedding failure that the gateway
\* does not wrap is none of the four named categories.
LoaderErrors == {"UnsupportedFileTypeError", "DocumentLoadError"}
ChunkerErrors == {"ChunkingError"}
StoreErrors == {"VectorStoreError", "Exception"}

\* create_chunker(chunk_size, chunk_overlap, ...): ChunkingError when
\* chunk_size <= chunk_overlap.
ChunkerRejects(chunk_size, chunk_overlap) == chunk_size <= chunk_overlap

\* len(chunker.split_documents(raw_docs, ...)): every chunk starts at a
\* character of its own, so there are at most as many chunks as characters.
ChunkerOutputs(raw_docs) == 0..SumSeq(raw_docs)

(***************************************************************************)
(* The projects table.  A project id is the namespace of the project's     *)
(* vectors.                                                                *)
(***************************************************************************)
Namespaces == {"p1", "p2"}

\* The documents of the two projects.
ProjectDocs == {"d1", "d2"}

\* models.ProjectStatus
ACTIVE == "active"
ARCHIVED == "archived"

\* The users.  The request handlers below are the requests of Owner, who
\* creates and owns every project; requests of the other user are the
\* subject of SpecOwnership.
Users == {"u1", "u2"}
Owner == "u1"

NoProject == [exists |-> FALSE, owner_id |-> "none", status |-> "none",
              chunk_size |-> 0, chunk_overlap |-> 0]

\* crud.create_project: the record of a new project.
NewProject(chunk_size, chunk_overlap) ==
    [exists |-> TRUE, owner_id |-> Owner, status |-> ACTIVE,
     chunk_size |-> chunk_size, chunk_overlap |-> chunk_overlap]

\* schemas.ProjectCreate: the defaults of chunk_size and chunk_overlap.
DefaultChunkSize == 1000
DefaultChunkOverlap == 200

(***************************************************************************)
(* State.                                                                  *)
(***************************************************************************)
VARIABLES
    docs,       \* documents table: document id -> record
    created,    \* document ids handed out so far
    vectors,    \* the vector store: set of [namespace, document_id, run, idx]
    tasks,      \* background tasks, in the order they were queued
    reingest,   \* the reingest_document request being handled
    deleter,    \* the delete_document request being handled
    deleteFailed, \* delete_document_vectors has returned False
    projects,   \* projects table: project id -> record
    pdeleter,   \* the delete_project request being handled
    query,      \* the query_documents request being handled
    chat,       \* chat sessions and their messages
    rag         \* the call of a retrieval or generation function being evaluated

\* What the document handlers and the background runs leave alone.
others == <<projects, pdeleter, query, chat, rag>>

vars == <<docs, created, vectors, tasks, reingest, deleter, deleteFailed,
          projects, pdeleter, query, chat, rag>>

NoResult == [returned |-> FALSE, success |-> FALSE, message |-> NoneMsg, chunk_count |-> 0]
Result(s, m, n) == [returned |-> TRUE, success |-> s, message |-> m, chunk_count |-> n]

IdleReingest == [pc |-> "idle", doc |-> "none", ns |-> "none", force |-> FALSE,
                 forced |-> FALSE, deleteInvoked |-> FALSE, resetDone |-> FALSE,
                 chunk_size |-> None, chunk_overlap |-> None]
IdleDeleter == [pc |-> "idle", doc |-> "none", ns |-> "none"]
IdleProjectDeleter == [pc |-> "idle", project |-> "none"]
\* session_id of a query request: none given, or not a UUID, or a UUID.
NoSessionId == 0
MalformedSessionId == -1

\* The detail of an HTTP error response: a fixed text and, for a QueryError,
\* the message the error carries.
NoDetail == [prefix |-> "", message |-> ""]
NoError == "none"
IdleQuery == [pc |-> "idle", project |-> "none", document_ids |-> {},
              session_id |-> NoSessionId, session |-> NoSessionId,
              checked |-> {}, engine |-> FALSE, result |-> FALSE,
              stored |-> <<>>, status |-> 0,
              invocations |-> 0, error |-> NoError, detail |-> NoDetail]
NoChat == [sessions |-> {}, messages |-> <<>>]
NoCall == [op |-> "none"]

\* Python's `a or b`: b when a is None or 0.
PyOr(a, b) == IF a = None \/ a = 0 THEN b ELSE a

\* The settings an upload passes to its run: the project's
\* (documents.py:190-197).
UploadSettings(p) ==
    [IdleReingest EXCEPT !.chunk_size = projects[p].chunk_size,
                         !.chunk_overlap = projects[p].chunk_overlap]

\* background_tasks.add_task(process_document_background, ..., document_id,
\* project_id, chunk_size, chunk_overlap)
NewTask(d, p, origin, h) ==
    [doc |-> d, ns |-> p, origin |-> origin, pc |-> "queued",
     chunk_size |-> h.chunk_size, chunk_overlap |-> h.chunk_overlap,
     raw_docs |-> <<>>, chunk_count |-> 0, err |-> "none",
     stored |-> FALSE, failed |-> FALSE,
     writes |-> <<>>, result |-> NoResult,
     forced |-> h.forced,
     deleteInvoked |-> h.deleteInvoked, resetDone |-> h.resetDone]

TaskIds == 1..Len(tasks)

\* A run is in flight from its write of PROCESSING to its last status write.
InFlightPcs == {"load", "complete", "except"}
InFlight(d) == {t \in TaskIds : tasks[t].doc = d /\ tasks[t].pc \in InFlightPcs}

\* A run is between the return of ingest_document and the end of
\* process_document_background.  Nothing in that stretch touches the database
\* or the vector store, so it is taken before any other step.
Returning == \E t \in TaskIds : tasks[t].pc \in {"returned", "raised"}

\* Tasks queued so far, counting the one an accepted request is about to queue.
TaskBudgetUsed == Len(tasks) + (IF reingest.pc = "idle" THEN 0 ELSE 1)

Init ==
    /\ docs = [d \in Docs |-> NoDoc]
    /\ created = {}
    /\ vectors = {}
    /\ tasks = <<>>
    /\ reingest = IdleReingest
    /\ deleter = IdleDeleter
    /\ deleteFailed = FALSE
    /\ projects = [p \in Namespaces |->
                      IF p \in Projects
                      THEN NewProject(DefaultChunkSize, DefaultChunkOverlap)
                      ELSE NoProject]
    /\ pdeleter = IdleProjectDeleter
    /\ query = IdleQuery
    /\ chat = NoChat
    /\ rag = NoCall


(***************************************************************************)
(* Status writes.  db.commit() on a record that was deleted meanwhile      *)
(* raises.                                                                 *)
(***************************************************************************)
CommitOutcomes(d) == {docs[d].exists}

WriteDoc(d, rec) == docs' = [docs EXCEPT ![d] = rec]

(***************************************************************************)
(* Vector store gateway (app.rag.vectorstore).                             *)
(***************************************************************************)
\* add_documents(documents=chunks, namespace): the chunks of run t, ids 1..n
ChunkVectors(ns, d, t, n) ==
    {[namespace |-> ns, document_id |-> d, run |-> t, idx |-> i] : i \in 1..n}

\* delete_by_document_id(document_id, namespace): the store after the delete
DeleteByDocumentId(store, d, ns) ==
    {v \in store : ~(v.document_id = d /\ v.namespace = ns)}

VectorsOf(d) == {v \in vectors : v.document_id = d}

\* A delete that clears the whole index instead of one namespace.
DeleteNamespaceOfAll(store, ns) == {}

\* delete_namespace(namespace): the store after the delete
DeleteNamespace(store, ns) == {v \in store : v.namespace # ns}

VectorsIn(ns) == {v \in vectors : v.namespace = ns}

(***************************************************************************)
(* upload_document                                                         *)
(***************************************************************************)
\* An upload handler that creates the record and queues nothing.
UploadWithoutTask(d, p, process_immediately) ==
    /\ ~Returning
    /\ projects[p].exists
    /\ d \notin created
    /\ created' = created \cup {d}
    /\ WriteDoc(d, NewDocument(p))
    /\ UNCHANGED <<vectors, tasks, reingest, deleter, deleteFailed>>
    /\ UNCHANGED others

\* documents.py:123-203 (and, one file at a time, bulk_upload_documents,
\* documents.py:212-300, which always queues the run)
Upload(d, p, process_immediately) ==
    /\ ~Returning
    /\ projects[p].exists
    /\ projects[p].status # ARCHIVED
    /\ d \notin created
    /\ process_immediately => TaskBudgetUsed < MaxTasks
    /\ created' = created \cup {d}
    /\ WriteDoc(d, NewDocument(p))
    /\ tasks' = IF process_immediately
                THEN Append(tasks, NewTask(d, p, "upload", UploadSettings(p)))
                ELSE tasks
    /\ UNCHANGED <<vectors, reingest, deleter, deleteFailed>>
    /\ UNCHANGED others

(***************************************************************************)
(* reingest_document                                                       *)
(***************************************************************************)
\* A handler that also refuses a document whose run is in progress.
ReingestAcceptedUnlessProcessing(status, force) ==
    ~(status = COMPLETED /\ ~force) /\ status # PROCESSING

\* documents.py:461: the request is refused only for a COMPLETED document
\* without force.
ReingestAccepted(status, force) == ~(status = COMPLETED /\ ~force)

\* A handler that resets the status before it deletes the vectors.
ReingestNextPcResetFirst(pc) ==
    CASE pc = "check" -> "reset"
      [] pc = "reset" -> "delete"
      [] pc = "delete" -> "queue"
      [] OTHER -> "idle"

\* The order of the handler's steps after the checks.
ReingestNextPc(pc) ==
    CASE pc = "check" -> "delete"
      [] pc = "delete" -> "reset"
      [] pc = "reset" -> "queue"
      [] OTHER -> "idle"

\* schemas.ReingestionRequest: chunk_size and chunk_overlap are optional,
\* Field(ge=100, le=4000) and Field(ge=0, le=1000).  The run gets
\* `request.chunk_size or project.chunk_size` and the same for the overlap
\* (documents.py:474-476), of the project the handler has loaded.
ReingestStartWith(d, p, force, chunk_size, chunk_overlap) ==
    /\ ~Returning
    /\ chunk_size # None => (chunk_size >= 100 /\ chunk_size <= 4000)
    /\ chunk_overlap # None => (chunk_overlap >= 0 /\ chunk_overlap <= 1000)
    /\ reingest.pc = "idle"
    /\ TaskBudgetUsed < MaxTasks
    /\ projects[p].exists
    /\ projects[p].status # ARCHIVED
    /\ docs[d].exists /\ docs[d].project_id = p
    /\ reingest' = [IdleReingest EXCEPT
                       !.pc = IF ReingestAccepted(docs[d].status, force)
                              THEN ReingestNextPc("check") ELSE "rejected",
                       !.doc = d, !.ns = p, !.force = force,
                       !.forced = (force /\ docs[d].status = COMPLETED),
                       !.chunk_size = PyOr(chunk_size, projects[p].chunk_size),
                       !.chunk_overlap = PyOr(chunk_overlap,
                                              projects[p].chunk_overlap)]
    /\ UNCHANGED <<docs, created, vectors, tasks, deleter, deleteFailed>>
    /\ UNCHANGED others

\* A re-ingest request that carries no settings.
ReingestStart(d, p, force) == ReingestStartWith(d, p, force, None, None)

\* documents.py:462-465: HTTP 400
ReingestReject ==
    /\ ~Returning
    /\ reingest.pc = "rejected"
    /\ reingest' = IdleReingest
    /\ UNCHANGED <<docs, created, vectors, tasks, deleter, deleteFailed>>
    /\ UNCHANGED others

\* ingestion_service.delete_document_vectors(document_id, project_id); the
\* handler ignores the returned bool.
ReingestDelete ==
    /\ ~Returning
    /\ reingest.pc = "delete"
    /\ \E ok \in BOOLEAN :
       /\ vectors' = IF ok THEN DeleteByDocumentId(vectors, reingest.doc, reingest.ns)
                      ELSE vectors
       /\ reingest' = [reingest EXCEPT !.pc = ReingestNextPc("delete"),
                                       !.deleteInvoked = TRUE]
       /\ deleteFailed' = (deleteFailed \/ ~ok)
    /\ UNCHANGED <<docs, created, tasks, deleter>>
    /\ UNCHANGED others

\* crud.reset_document_for_reingestion(db, document)
ReingestReset ==
    /\ ~Returning
    /\ reingest.pc = "reset"
    /\ \E ok \in CommitOutcomes(reingest.doc) :
        IF ok
        THEN /\ WriteDoc(reingest.doc, ResetDocumentForReingestion(docs[reingest.doc]))
             /\ reingest' = [reingest EXCEPT !.pc = ReingestNextPc("reset"),
                                             !.resetDone = TRUE]
        ELSE /\ reingest' = IdleReingest
             /\ UNCHANGED <<docs>>
    /\ UNCHANGED <<created, vectors, tasks, deleter, deleteFailed>>
    /\ UNCHANGED others

\* documents.py:488-491: db.refresh(document); return document.  The response
\* is the row as it is read after the run was queued.
ReingestResponse == docs[reingest.doc]

\* background_tasks.add_task(process_document_background, ...), the refresh
\* and the return
ReingestQueue ==
    /\ ~Returning
    /\ reingest.pc = "queue"
    /\ tasks' = Append(tasks, NewTask(reingest.doc, reingest.ns, "reingest", reingest))
    /\ reingest' = IdleReingest
    /\ UNCHANGED <<docs, created, vectors, deleter, deleteFailed>>
    /\ UNCHANGED others

(***************************************************************************)
(* delete_document                                                         *)
(***************************************************************************)
DeleteStart(d, p) ==
    /\ ~Returning
    /\ deleter.pc = "idle"
    /\ projects[p].exists
    /\ docs[d].exists /\ docs[d].project_id = p
    /\ deleter' = [pc |-> "vectors", doc |-> d, ns |-> p]
    /\ UNCHANGED <<docs, created, vectors, tasks, reingest, deleteFailed>>
    /\ UNCHANGED others

DeleteVectors ==
    /\ ~Returning
    /\ deleter.pc = "vectors"
    /\ \E ok \in BOOLEAN :
       /\ vectors' = IF ok THEN DeleteByDocumentId(vectors, deleter.doc, deleter.ns)
                      ELSE vectors
       /\ deleteFailed' = (deleteFailed \/ ~ok)
    /\ deleter' = [deleter EXCEPT !.pc = "record"]
    /\ UNCHANGED <<docs, created, tasks, reingest>>
    /\ UNCHANGED others

\* crud.delete_document(db, document)
DeleteRecord ==
    /\ ~Returning
    /\ deleter.pc = "record"
    /\ docs' = [docs EXCEPT ![deleter.doc] = NoDoc]
    /\ deleter' = IdleDeleter
    /\ UNCHANGED <<created, vectors, tasks, reingest, deleteFailed>>
    /\ UNCHANGED others

(***************************************************************************)
(* create_project and update_project                                       *)
(***************************************************************************)
\* schemas.ProjectCreate / ProjectUpdate: Field(ge=100, le=4000) and
\* Field(ge=0, le=1000); there is no validator across the two fields.
ValidChunkSize(n) == n >= 100 /\ n <= 4000
ValidChunkOverlap(n) == n >= 0 /\ n <= 1000

\* The values requests carry, valid and invalid ones.
ChunkSizeInputs == {50, 100, 500, 1000, 4000, 5000}
ChunkOverlapInputs == {-5, 0, 200, 1000, 2000}

\* crud.update_project: setattr for every field the request set.
UpdatedProject(project, chunk_size, chunk_overlap) ==
    [project EXCEPT
        !.chunk_size = IF chunk_size # None THEN chunk_size ELSE @,
        !.chunk_overlap = IF chunk_overlap # None THEN chunk_overlap ELSE @]

\* POST /projects: a request that fails validation is answered 422 and
\* changes nothing.
CreateProject(p, chunk_size, chunk_overlap) ==
    /\ ~projects[p].exists
    /\ ValidChunkSize(chunk_size) /\ ValidChunkOverlap(chunk_overlap)
    /\ projects' = [projects EXCEPT ![p] = NewProject(chunk_size, chunk_overlap)]
    /\ UNCHANGED <<docs, created, vectors, tasks, reingest, deleter, deleteFailed,
                   pdeleter, query, chat, rag>>

\* An update that also hands the new settings to the runs already queued.
UpdateProjectAndQueuedRuns(p, chunk_size, chunk_overlap) ==
    /\ projects[p].exists
    /\ chunk_size # None => ValidChunkSize(chunk_size)
    /\ chunk_overlap # None => ValidChunkOverlap(chunk_overlap)
    /\ projects' = [projects EXCEPT
                        ![p] = UpdatedProject(projects[p], chunk_size, chunk_overlap)]
    /\ tasks' = [t \in DOMAIN tasks |->
                    IF tasks[t].ns = p /\ tasks[t].pc = "queued"
                    THEN [tasks[t] EXCEPT
                            !.chunk_size = projects'[p].chunk_size,
                            !.chunk_overlap = projects'[p].chunk_overlap]
                    ELSE tasks[t]]
    /\ UNCHANGED <<docs, created, vectors, reingest, deleter, deleteFailed,
                   pdeleter, query, chat, rag>>

\* PATCH /projects/{project_id}: both fields are optional.
UpdateProject(p, chunk_size, chunk_overlap) ==
    /\ projects[p].exists
    /\ chunk_size # None => ValidChunkSize(chunk_size)
    /\ chunk_overlap # None => ValidChunkOverlap(chunk_overlap)
    /\ projects' = [projects EXCEPT
                        ![p] = UpdatedProject(projects[p], chunk_size, chunk_overlap)]
    /\ UNCHANGED <<docs, created, vectors, tasks, reingest, deleter, deleteFailed,
                   pdeleter, query, chat, rag>>

(***************************************************************************)
(* archive_project and unarchive_project                                   *)
(***************************************************************************)
\* crud.archive_project
ArchiveProject(p) ==
    /\ projects[p].exists
    /\ projects' = [projects EXCEPT ![p].status = ARCHIVED]
    /\ UNCHANGED <<docs, created, vectors, tasks, reingest, deleter, deleteFailed,
                   pdeleter, query, chat, rag>>

\* crud.unarchive_project
UnarchiveProject(p) ==
    /\ projects[p].exists
    /\ projects' = [projects EXCEPT ![p].status = ACTIVE]
    /\ UNCHANGED <<docs, created, vectors, tasks, reingest, deleter, deleteFailed,
                   pdeleter, query, chat, rag>>

(***************************************************************************)
(* delete_project                                                          *)
(***************************************************************************)
\* projects.py:225-230: crud.get_project, 404 when there is none
DeleteProjectStart(p) ==
    /\ ~Returning
    /\ pdeleter.pc = "idle"
    /\ projects[p].exists
    /\ pdeleter' = [pc |-> "vectors", project |-> p]
    /\ UNCHANGED <<docs, created, vectors, tasks, reingest, deleter, deleteFailed,
                   projects, query, chat, rag>>

\* projects.py:232-234: ingestion_service.delete_project_vectors(project_id),
\* which returns False when delete_namespace raises; the handler ignores the
\* returned bool.
DeleteProjectVectors ==
    /\ ~Returning
    /\ pdeleter.pc = "vectors"
    /\ \E ok \in BOOLEAN :
         vectors' = IF ok THEN DeleteNamespace(vectors, pdeleter.project) ELSE vectors
    /\ pdeleter' = [pdeleter EXCEPT !.pc = "records"]
    /\ UNCHANGED <<docs, created, tasks, reingest, deleter, deleteFailed,
                   projects, query, chat, rag>>

\* crud.delete_project: the project goes, and with it (cascade) its
\* documents and its chat sessions with their messages.
CascadeDocs(table, p) ==
    [d \in DOMAIN table |->
        IF table[d].exists /\ table[d].project_id = p THEN NoDoc ELSE table[d]]

CascadeChat(c, p) ==
    [sessions |-> {x \in c.sessions : x.project # p},
     messages |-> SelectSeq(c.messages, LAMBDA m : m.project # p)]

\* projects.py:236-237: crud.delete_project(db, project)
DeleteProjectRecords ==
    /\ ~Returning
    /\ pdeleter.pc = "records"
    /\ projects' = [projects EXCEPT ![pdeleter.project] = NoProject]
    /\ docs' = CascadeDocs(docs, pdeleter.project)
    /\ chat' = CascadeChat(chat, pdeleter.project)
    /\ pdeleter' = IdleProjectDeleter
    /\ UNCHANGED <<created, vectors, tasks, reingest, deleter, deleteFailed, query, rag>>

(***************************************************************************)
(* process_document_background -> IngestionService.ingest_document         *)
(***************************************************************************)
\* An entry of a run's log of status writes.
Wrote(status, message) == [status |-> status, message |-> message]

SetTask(t, rec) == tasks' = [tasks EXCEPT ![t] = rec]

\* ingest_document returns the tuple (success, message, chunk_count).
Returns(t, success, message, chunk_count) ==
    [tasks[t] EXCEPT !.pc = "returned",
                     !.result = Result(success, message, chunk_count)]

\* An exception leaves ingest_document.
Raises(t) == [tasks[t] EXCEPT !.pc = "raised"]

\* A status write that passes no counters on.
RunWriteWithoutCounts(t, status, message, chunk_count, page_count, character_count) ==
    WriteDoc(tasks[t].doc,
             UpdateDocumentStatus(docs[tasks[t].doc], status, message,
                                  None, None, None))

\* The run's status write through crud.update_document_status.
RunWrite(t, status, message, chunk_count, page_count, character_count) ==
    WriteDoc(tasks[t].doc,
             UpdateDocumentStatus(docs[tasks[t].doc], status, message,
                                  chunk_count, page_count, character_count))

\* A run that goes on to COMPLETED whatever add_documents did.
AfterStorePcIgnoringFailure(ok) == "complete"

\* Where the run goes after vectorstore_manager.add_documents.
AfterStorePc(ok) == IF ok THEN "complete" ELSE "except"

\* A run that goes on without looking the document up.
RunStartWithoutLookup(t) ==
    /\ ~Returning
    /\ tasks[t].pc = "queued"
    /\ SetTask(t, [tasks[t] EXCEPT !.pc = "mark"])
    /\ UNCHANGED <<docs, created, vectors, reingest, deleter, deleteFailed>>
    /\ UNCHANGED others

\* ingestion.py:60-65: look the document up
RunStart(t) ==
    /\ ~Returning
    /\ tasks[t].pc = "queued"
    /\ IF ~docs[tasks[t].doc].exists
       THEN SetTask(t, Returns(t, FALSE, Msg("Document not found"), 0))
       ELSE SetTask(t, [tasks[t] EXCEPT !.pc = "mark"])
    /\ UNCHANGED <<docs, created, vectors, reingest, deleter, deleteFailed>>
    /\ UNCHANGED others

\* ingestion.py:67-72: status PROCESSING, outside the try block
RunMarkProcessing(t) ==
    /\ ~Returning
    /\ tasks[t].pc = "mark"
    /\ \E ok \in CommitOutcomes(tasks[t].doc) :
        IF ok
        THEN /\ RunWrite(t, PROCESSING, Msg("Processing document..."), None, None, None)
             /\ SetTask(t, [tasks[t] EXCEPT !.pc = "load",
                   !.writes = Append(@, Wrote(PROCESSING, Msg("Processing document...")))])
        ELSE /\ SetTask(t, Raises(t))
             /\ UNCHANGED <<docs>>
    /\ UNCHANGED <<created, vectors, reingest, deleter, deleteFailed>>
    /\ UNCHANGED others

\* A stage raises k; control goes to the except clauses.
RunRaise(t, k) ==
    /\ SetTask(t, [tasks[t] EXCEPT !.pc = "except", !.err = k, !.failed = TRUE])
    /\ UNCHANGED <<docs, vectors>>

\* ingestion.py:79-89 and 104-114: nothing to ingest; status FAILED with
\* one message, return with another.
RunFailEmpty(t, written, returned) ==
    /\ \E ok \in CommitOutcomes(tasks[t].doc) :
        IF ok
        THEN /\ RunWrite(t, FAILED, Msg(written), None, None, None)
             /\ SetTask(t, [Returns(t, FALSE, Msg(returned), 0)
                    EXCEPT !.failed = TRUE,
                           !.writes = Append(@, Wrote(FAILED, Msg(written)))])
        ELSE /\ SetTask(t, [tasks[t] EXCEPT !.pc = "except", !.failed = TRUE,
                               !.err = "Exception"])
             /\ UNCHANGED <<docs>>
    /\ UNCHANGED <<vectors>>

\* ingestion.py:116-121: vectorstore_manager.add_documents(chunks, namespace)
RunStore(t, raw_docs, n) ==
    /\ \/ /\ vectors' = vectors \cup ChunkVectors(tasks[t].ns, tasks[t].doc, t, n)
          /\ SetTask(t, [tasks[t] EXCEPT !.pc = AfterStorePc(TRUE), !.stored = TRUE,
                            !.raw_docs = raw_docs, !.chunk_count = n])
       \/ \E k \in StoreErrors, written \in 0..(n - 1) :
          /\ vectors' = vectors \cup ChunkVectors(tasks[t].ns, tasks[t].doc, t, written)
          /\ SetTask(t, [tasks[t] EXCEPT !.pc = AfterStorePc(FALSE), !.err = k,
                            !.failed = TRUE])
    /\ UNCHANGED <<docs>>

\* ingestion.py:91-121: create_chunker(...).split_documents(raw_docs, ...),
\* then the store
RunChunk(t, raw_docs) ==
    IF ChunkerRejects(tasks[t].chunk_size, tasks[t].chunk_overlap)
    THEN RunRaise(t, "ChunkingError")
    ELSE \/ \E k \in ChunkerErrors : RunRaise(t, k)
         \/ \E n \in ChunkerOutputs(raw_docs) :
              IF n = 0
              THEN RunFailEmpty(t, "No chunks created from document",
                                "No chunks created")
              ELSE RunStore(t, raw_docs, n)

\* ingestion.py:74-121: loader.load(file_path), chunking and the store.
\* Loading and chunking touch neither the database nor the vector store, so
\* they are one step with the first call after them that does.
RunLoad(t) ==
    /\ ~Returning
    /\ tasks[t].pc = "load"
    /\ \/ \E k \in LoaderErrors : RunRaise(t, k)
       \/ \E raw_docs \in LoaderOutputs :
            IF raw_docs = <<>>
            THEN RunFailEmpty(t, "No content extracted from document",
                              "No content extracted from document")
            ELSE RunChunk(t, raw_docs)
    /\ UNCHANGED <<created, reingest, deleter, deleteFailed>>
    /\ UNCHANGED others

\* ingestion.py:123-134: status COMPLETED with the counters, return
RunComplete(t) ==
    /\ ~Returning
    /\ tasks[t].pc = "complete"
    /\ \E ok \in CommitOutcomes(tasks[t].doc) :
        IF ok
        THEN /\ RunWrite(t, COMPLETED, Msg("Document processed successfully"),
                         tasks[t].chunk_count, Len(tasks[t].raw_docs),
                         SumSeq(tasks[t].raw_docs))
             /\ SetTask(t, [Returns(t, TRUE, Msg("Document processed successfully"),
                                    tasks[t].chunk_count)
                    EXCEPT !.writes = Append(@, Wrote(COMPLETED,
                                        Msg("Document processed successfully")))])
        ELSE /\ SetTask(t, [tasks[t] EXCEPT !.pc = "except", !.err = "Exception"])
             /\ UNCHANGED <<docs>>
    /\ UNCHANGED <<created, vectors, reingest, deleter, deleteFailed>>
    /\ UNCHANGED others

\* ingestion.py:136-184: the except clauses
RunExcept(t) ==
    /\ ~Returning
    /\ tasks[t].pc = "except"
    /\ \E ok \in CommitOutcomes(tasks[t].doc) :
        IF ok
        THEN /\ RunWrite(t, FAILED, ErrorMsg(tasks[t].err), None, None, None)
             /\ SetTask(t, [Returns(t, FALSE, ErrorMsg(tasks[t].err), 0)
                    EXCEPT !.writes = Append(@, Wrote(FAILED, ErrorMsg(tasks[t].err)))])
        ELSE /\ SetTask(t, Raises(t))
             /\ UNCHANGED <<docs>>
    /\ UNCHANGED <<created, vectors, reingest, deleter, deleteFailed>>
    /\ UNCHANGED others

\* documents.py:113-114: finally db.close(); the result is dropped, an
\* exception goes on to the background-task runner.
RunFinally(t) ==
    /\ tasks[t].pc \in {"returned", "raised"}
    /\ SetTask(t, [tasks[t] EXCEPT
                       !.pc = IF tasks[t].pc = "returned" THEN "done" ELSE "escaped",
                       !.raw_docs = <<>>, !.chunk_count = 0, !.err = "none",
                       !.stored = FALSE, !.failed = FALSE, !.writes = <<>>,
                       !.result = NoResult, !.forced = FALSE])
    /\ UNCHANGED <<docs, created, vectors, reingest, deleter, deleteFailed>>
    /\ UNCHANGED others

(***************************************************************************)
(* query_documents                                                         *)
(***************************************************************************)
\* Statistics that count every document of the project as completed.
CompletedDocumentsOfAnyStatus(p) ==
    {d \in DOMAIN docs : docs[d].exists /\ docs[d].project_id = p}

\* crud.get_project_stats(...)['completed_documents']
CompletedDocuments(p) ==
    {d \in DOMAIN docs : docs[d].exists /\ docs[d].project_id = p
                           /\ docs[d].status = COMPLETED}

\* The outcomes of RAGQueryEngine.query.
EngineOutcomes == {"result", "QueryError", "Exception"}

\* The messages a QueryError may carry: a retrieval or a generation failure.
QueryErrorMessages == {"retrieval failed", "generation failed"}

QueryErrorDetailWithoutMessage(message) ==
    [prefix |-> "Query processing failed: ", message |-> ""]

\* query.py:180-185: detail=f"Query processing failed: {e.message}"
QueryErrorDetail(message) ==
    [prefix |-> "Query processing failed: ", message |-> message]

\* query.py:186-191: the detail of every other exception
UnexpectedErrorDetail ==
    [prefix |-> "An unexpected error occurred while processing your query",
     message |-> ""]

\* The chat session with this id, if any (crud.get_chat_session).
ChatSessions(id) == {x \in chat.sessions : x.id = id}

\* The request ends with an HTTP error.
QueryFails(code) == [query EXCEPT !.pc = "failed", !.status = code]

\* query.py:54-64: look the project up
QueryStart(p, document_ids, session_id) ==
    /\ query.pc = "idle"
    /\ Len(chat.messages) < 2 * MaxQueries
    /\ query' = IF projects[p].exists
                THEN [IdleQuery EXCEPT !.pc = "stats", !.project = p,
                                       !.document_ids = document_ids,
                                       !.session_id = session_id,
                                       !.checked = {"project"}]
                ELSE [IdleQuery EXCEPT !.pc = "failed", !.status = 404, !.project = p]
    /\ UNCHANGED <<docs, created, vectors, tasks, reingest, deleter, deleteFailed,
                   projects, pdeleter, chat, rag>>

\* query.py:66-72: the project needs a COMPLETED document
QueryCheckCompleted ==
    /\ query.pc = "stats"
    /\ query' = IF CompletedDocuments(query.project) = {}
                THEN QueryFails(400)
                ELSE [query EXCEPT !.pc = "document_ids",
                                   !.checked = @ \cup {"completed_documents"}]
    /\ UNCHANGED <<docs, created, vectors, tasks, reingest, deleter, deleteFailed,
                   projects, pdeleter, chat, rag>>

\* query.py:74-88: every document id of the request is a COMPLETED document
\* of the project (the documents of ProjectDocs are within the list's limit
\* of 100; larger projects are the subject of SpecDocumentIds)
QueryCheckDocumentIds ==
    /\ query.pc = "document_ids"
    /\ query' = IF query.document_ids \subseteq CompletedDocuments(query.project)
                THEN [query EXCEPT !.pc = "engine",
                                   !.checked = @ \cup {"document_ids"}]
                ELSE QueryFails(400)
    /\ UNCHANGED <<docs, created, vectors, tasks, reingest, deleter, deleteFailed,
                   projects, pdeleter, chat, rag>>

\* query.py:89-117: await engine.query(...); QueryError and any other
\* exception become HTTP 500 (query.py:180-191)
QueryEngine ==
    /\ query.pc = "engine"
    /\ \E outcome \in EngineOutcomes, message \in QueryErrorMessages :
         query' = IF outcome = "result"
                  THEN [query EXCEPT !.pc = "session", !.engine = TRUE,
                                     !.invocations = @ + 1, !.result = TRUE]
                  ELSE IF outcome = "QueryError"
                  THEN [QueryFails(500) EXCEPT !.engine = TRUE,
                                               !.invocations = @ + 1,
                                               !.error = message,
                                               !.detail = QueryErrorDetail(message)]
                  ELSE [QueryFails(500) EXCEPT !.engine = TRUE,
                                               !.invocations = @ + 1,
                                               !.detail = UnexpectedErrorDetail]
    /\ UNCHANGED <<docs, created, vectors, tasks, reingest, deleter, deleteFailed,
                   projects, pdeleter, chat, rag>>

\* query.py:119-155: validate session_id, or create a session when there is
\* none.  The HTTPExceptions raised here are raised inside the try block and
\* leave through `except Exception` as HTTP 500.
QueryResolveSession ==
    /\ query.pc = "session"
    /\ IF query.session_id = NoSessionId
       THEN LET id == Cardinality(chat.sessions) + 1 IN
            /\ chat' = [chat EXCEPT !.sessions = @ \cup
                                        {[id |-> id, project |-> query.project]}]
            /\ query' = [query EXCEPT !.pc = "question", !.session = id]
       ELSE /\ query' =
                 IF /\ query.session_id # MalformedSessionId
                    /\ \E x \in ChatSessions(query.session_id) : x.project = query.project
                 THEN [query EXCEPT !.pc = "question", !.session = query.session_id,
                                    !.checked = @ \cup {"session_id"}]
                 ELSE [QueryFails(500) EXCEPT !.checked = @ \cup {"session_id"},
                                              !.detail = UnexpectedErrorDetail]
            /\ UNCHANGED chat
    /\ UNCHANGED <<docs, created, vectors, tasks, reingest, deleter, deleteFailed,
                   projects, pdeleter, rag>>

\* crud.create_chat_message: one more message of the session.
StoreMessage(role) ==
    /\ chat' = [chat EXCEPT !.messages =
                    Append(@, [session |-> query.session, project |-> query.project,
                               role |-> role])]
    /\ UNCHANGED <<docs, created, vectors, tasks, reingest, deleter, deleteFailed,
                   projects, pdeleter, rag>>

\* query.py:157-163: store the user question
QueryStoreQuestion ==
    /\ query.pc = "question"
    /\ StoreMessage("user")
    /\ query' = [query EXCEPT !.pc = "answer", !.stored = Append(@, "user")]

\* query.py:165-176: store the assistant answer
QueryStoreAnswer ==
    /\ query.pc = "answer"
    /\ StoreMessage("assistant")
    /\ query' = [query EXCEPT !.pc = "respond", !.stored = Append(@, "assistant")]

\* query.py:178: return response
QueryRespond ==
    /\ query.pc = "respond"
    /\ query' = [query EXCEPT !.pc = "responded", !.status = 200]
    /\ UNCHANGED <<docs, created, vectors, tasks, reingest, deleter, deleteFailed,
                   projects, pdeleter, chat, rag>>

\* The request is over.
QueryEnd ==
    /\ query.pc \in {"failed", "responded"}
    /\ query' = IdleQuery
    /\ UNCHANGED <<docs, created, vectors, tasks, reingest, deleter, deleteFailed,
                   projects, pdeleter, chat, rag>>

(***************************************************************************)
(* Specifications                                                          *)
(***************************************************************************)
\* Uploads, re-ingestion requests and background runs.
Next ==
    \/ \E d \in Docs, p \in Projects, b \in BOOLEAN : Upload(d, p, b)
    \/ \E d \in Docs, p \in Projects, force \in BOOLEAN : ReingestStart(d, p, force)
    \/ ReingestReject
    \/ ReingestDelete
    \/ ReingestReset
    \/ ReingestQueue
    \/ \E t \in TaskIds : RunStart(t)
    \/ \E t \in TaskIds : RunMarkProcessing(t)
    \/ \E t \in TaskIds : RunLoad(t)
    \/ \E t \in TaskIds : RunComplete(t)
    \/ \E t \in TaskIds : RunExcept(t)
    \/ \E t \in TaskIds : RunFinally(t)

Spec == Init /\ [][Next]_vars

\* A step of background run t.
RunStep(t) ==
    /\ t \in TaskIds
    /\ \/ RunStart(t)
       \/ RunMarkProcessing(t)
       \/ RunLoad(t)
       \/ RunComplete(t)
       \/ RunExcept(t)
       \/ RunFinally(t)

\* The thread pool runs every queued background task and every call of a
\* run returns: a run that can take a step eventually takes it.
FairSpec == Spec /\ \A t \in 1..MaxTasks : WF_vars(RunStep(t))

\* The same with document deletion.
NextDelete ==
    \/ Next
    \/ \E d \in Docs, p \in Projects : DeleteStart(d, p)
    \/ DeleteVectors
    \/ DeleteRecord

SpecDelete == Init /\ [][NextDelete]_vars

\* Project settings: no project yet, then create and update requests.
InitSettings ==
    /\ docs = [d \in Docs |-> NoDoc]
    /\ created = {}
    /\ vectors = {}
    /\ tasks = <<>>
    /\ reingest = IdleReingest
    /\ deleter = IdleDeleter
    /\ deleteFailed = FALSE
    /\ projects = [p \in Namespaces |-> NoProject]
    /\ pdeleter = IdleProjectDeleter
    /\ query = IdleQuery
    /\ chat = NoChat
    /\ rag = NoCall

NextSettings ==
    \/ \E p \in Namespaces, n \in ChunkSizeInputs, o \in ChunkOverlapInputs :
          CreateProject(p, n, o)
    \/ \E p \in Namespaces, n \in ChunkSizeInputs \cup {None},
              o \in ChunkOverlapInputs \cup {None} :
          UpdateProject(p, n, o)

SpecSettings == InitSettings /\ [][NextSettings]_vars

\* Queries.  Project p2 holds the COMPLETED document d2; document d1 of
\* project p1 is not uploaded, or PENDING, or COMPLETED.
SessionIdInputs == {MalformedSessionId, NoSessionId} \cup (1..(MaxQueries + 1))

InitQuery ==
    /\ \E s \in {"none", PENDING, COMPLETED} :
         /\ docs = [d \in ProjectDocs |->
                      IF d = "d2"
                      THEN UpdateDocumentStatus(NewDocument("p2"), COMPLETED,
                               Msg("Document processed successfully"), 1, 1, 1)
                      ELSE IF s = "none" THEN NoDoc
                      ELSE IF s = PENDING THEN NewDocument("p1")
                      ELSE UpdateDocumentStatus(NewDocument("p1"), COMPLETED,
                               Msg("Document processed successfully"), 1, 1, 1)]
         /\ created = IF s = "none" THEN {"d2"} ELSE {"d1", "d2"}
         /\ vectors = ChunkVectors("p2", "d2", 0, 1) \cup
                         (IF s = COMPLETED THEN ChunkVectors("p1", "d1", 0, 1) ELSE {})
    /\ tasks = <<>>
    /\ reingest = IdleReingest
    /\ deleter = IdleDeleter
    /\ deleteFailed = FALSE
    /\ projects = [p \in Namespaces |-> NewProject(DefaultChunkSize, DefaultChunkOverlap)]
    /\ pdeleter = IdleProjectDeleter
    /\ query = IdleQuery
    /\ chat = NoChat
    /\ rag = NoCall

NextQuery ==
    \/ \E p \in Namespaces, ids \in SUBSET ProjectDocs, sid \in SessionIdInputs :
          QueryStart(p, ids, sid)
    \/ QueryCheckCompleted
    \/ QueryCheckDocumentIds
    \/ QueryEngine
    \/ QueryResolveSession
    \/ QueryStoreQuestion
    \/ QueryStoreAnswer
    \/ QueryRespond
    \/ QueryEnd

SpecQuery == InitQuery /\ [][NextQuery]_vars

\* Two projects.  Project p2 already holds document d2, ingested by an
\* earlier run (run 0) that stored one chunk; document d1 is yet to be
\* uploaded.
InitProjects ==
    /\ docs = [d \in ProjectDocs |->
                 IF d = "d2"
                 THEN UpdateDocumentStatus(NewDocument("p2"), COMPLETED,
                          Msg("Document processed successfully"), 1, 1, 1)
                 ELSE NoDoc]
    /\ created = {"d2"}
    /\ vectors = ChunkVectors("p2", "d2", 0, 1)
    /\ tasks = <<>>
    /\ reingest = IdleReingest
    /\ deleter = IdleDeleter
    /\ deleteFailed = FALSE
    /\ projects = [p \in Namespaces |-> NewProject(DefaultChunkSize, DefaultChunkOverlap)]
    /\ pdeleter = IdleProjectDeleter
    /\ query = IdleQuery
    /\ chat = NoChat
    /\ rag = NoCall

\* Requests on document d1 in either project, deletion of either project,
\* and the background runs, at most MaxRuns of them.
NextProjects ==
    \/ \E d \in Docs, p \in Namespaces, b \in BOOLEAN :
          (b => TaskBudgetUsed < MaxRuns) /\ Upload(d, p, b)
    \/ \E d \in Docs, p \in Namespaces, force \in BOOLEAN :
          /\ ReingestAccepted(docs[d].status, force) => TaskBudgetUsed < MaxRuns
          /\ ReingestStart(d, p, force)
    \/ ReingestReject
    \/ ReingestDelete
    \/ ReingestReset
    \/ ReingestQueue
    \/ \E d \in Docs, p \in Namespaces : DeleteStart(d, p)
    \/ DeleteVectors
    \/ DeleteRecord
    \/ \E p \in Namespaces : DeleteProjectStart(p)
    \/ DeleteProjectVectors
    \/ DeleteProjectRecords
    \/ \E t \in TaskIds : RunStart(t)
    \/ \E t \in TaskIds : RunMarkProcessing(t)
    \/ \E t \in TaskIds : RunLoad(t)
    \/ \E t \in TaskIds : RunComplete(t)
    \/ \E t \in TaskIds : RunExcept(t)
    \/ \E t \in TaskIds : RunFinally(t)

SpecProjects == InitProjects /\ [][NextProjects]_vars

(***************************************************************************)
(* Citation extraction of the query engine (stage EXTRACT_CITATIONS).      *)
(* A retrieved chunk is its chunk_id; the answer is the sequence of its    *)
(* inline citation markers.                                                *)
(***************************************************************************)
ChunkIds == 1..MaxChunks

RECURSIVE Dedup(_, _)
Dedup(s, seen) ==
    IF s = <<>> THEN <<>>
    ELSE IF Head(s) \in seen THEN Dedup(Tail(s), seen)
    ELSE <<Head(s)>> \o Dedup(Tail(s), seen \cup {Head(s)})

Range(s) == {s[i] : i \in DOMAIN s}

RECURSIVE Filter(_, _)
Filter(s, keep) ==
    IF s = <<>> THEN <<>>
    ELSE IF Head(s) \in keep THEN <<Head(s)>> \o Filter(Tail(s), keep)
    ELSE Filter(Tail(s), keep)

\* The markers that resolve to a retrieved chunk, each once, in the order
\* of their first appearance in the answer.
CitedChunksWithRepeats(retrieved, answer) == Filter(answer, Range(retrieved))

CitedChunks(retrieved, answer) == Dedup(Filter(answer, Range(retrieved)), {})

\* With include_all_sources the retrieved chunks the answer does not cite
\* are appended, in retrieval order.
ExtractCitations(retrieved, answer, include_all_sources) ==
    LET cited == CitedChunks(retrieved, answer) IN
    IF include_all_sources
    THEN cited \o Filter(retrieved, Range(retrieved) \ Range(cited))
    ELSE cited

\* The retrieved chunks, best first: ids in ascending or descending order.
RetrievedInputs ==
    UNION {{[i \in 1..n |-> i], [i \in 1..n |-> n + 1 - i]} : n \in 0..MaxChunks}

\* The answers: up to MaxMarkers markers, resolvable or not.
AnswerInputs == UNION {[1..n -> ChunkIds] : n \in 0..MaxMarkers}

InitCitations ==
    /\ docs = [d \in Docs |-> NoDoc]
    /\ created = {}
    /\ vectors = {}
    /\ tasks = <<>>
    /\ reingest = IdleReingest
    /\ deleter = IdleDeleter
    /\ deleteFailed = FALSE
    /\ projects = [p \in Namespaces |-> NoProject]
    /\ pdeleter = IdleProjectDeleter
    /\ query = IdleQuery
    /\ chat = NoChat
    /\ \E retrieved \in RetrievedInputs, answer \in AnswerInputs,
          include_all_sources \in BOOLEAN :
         rag = [op |-> "extract_citations", retrieved |-> retrieved,
                answer |-> answer, include_all_sources |-> include_all_sources,
                done |-> FALSE, citations |-> <<>>]

Extract ==
    /\ rag.op = "extract_citations" /\ ~rag.done
    /\ rag' = [rag EXCEPT !.done = TRUE,
                          !.citations = ExtractCitations(rag.retrieved, rag.answer,
                                                         rag.include_all_sources)]
    /\ UNCHANGED <<docs, created, vectors, tasks, reingest, deleter, deleteFailed,
                   projects, pdeleter, query, chat>>

NextCitations == Extract

SpecCitations == InitCitations /\ [][NextCitations]_vars

\* Archiving: the document handlers and runs of SpecDelete, with archive,
\* unarchive and settings requests on the project.
NextArchive ==
    \/ NextDelete
    \/ \E p \in Projects : ArchiveProject(p)
    \/ \E p \in Projects : UnarchiveProject(p)
    \/ \E p \in Projects, n \in {100, None}, o \in {None} : UpdateProject(p, n, o)

SpecArchive == Init /\ [][NextArchive]_vars

\* Chunk settings: the project is stored with settings the schema accepts,
\* and re-ingest requests carry settings of their own.
ProjectSettingsInputs == {<<1000, 200>>, <<200, 200>>}
ReingestSizeInputs == {None, 100}
ReingestOverlapInputs == {None, 0}

InitChunking ==
    /\ docs = [d \in Docs |-> NoDoc]
    /\ created = {}
    /\ vectors = {}
    /\ tasks = <<>>
    /\ reingest = IdleReingest
    /\ deleter = IdleDeleter
    /\ deleteFailed = FALSE
    /\ \E s \in ProjectSettingsInputs :
         projects = [p \in Namespaces |->
                        IF p \in Projects THEN NewProject(s[1], s[2]) ELSE NoProject]
    /\ pdeleter = IdleProjectDeleter
    /\ query = IdleQuery
    /\ chat = NoChat
    /\ rag = NoCall

NextChunking ==
    \/ \E d \in Docs, p \in Projects : Upload(d, p, TRUE)
    \/ \E d \in Docs, p \in Projects, force \in BOOLEAN,
          n \in ReingestSizeInputs, o \in ReingestOverlapInputs :
          ReingestStartWith(d, p, force, n, o)
    \/ ReingestReject
    \/ ReingestDelete
    \/ ReingestReset
    \/ ReingestQueue
    \/ \E t \in TaskIds : RunStart(t)
    \/ \E t \in TaskIds : RunMarkProcessing(t)
    \/ \E t \in TaskIds : RunLoad(t)
    \/ \E t \in TaskIds : RunComplete(t)
    \/ \E t \in TaskIds : RunExcept(t)
    \/ \E t \in TaskIds : RunFinally(t)

SpecChunking == InitChunking /\ [][NextChunking]_vars

(***************************************************************************)
(* The chunker (spec section 4.1).  A text is a sequence of characters,    *)
(* " " being a separator; a chunk is the span char_start..char_end of the  *)
(* text, both inclusive and counted from 1, with the characters it holds.  *)
(***************************************************************************)
Characters == {"a", " "}

Chunk(text, char_start, char_end) ==
    [char_start |-> char_start, char_end |-> char_end,
     text |-> SubSeq(text, char_start, char_end)]

SetMax(S) == CHOOSE x \in S : \A y \in S : y <= x

\* Where the chunk that starts at char_start ends: at the last separator
\* that keeps it within chunk_size characters and longer than the overlap,
\* or at a hard cut after chunk_size characters when there is none.
ChunkEnd(text, char_start, chunk_size, chunk_overlap) ==
    LET separators == {e \in (char_start + chunk_overlap)..(char_start + chunk_size - 1) :
                          text[e] = " "}
    IN IF separators # {} THEN SetMax(separators) ELSE char_start + chunk_size - 1

\* A chunker whose next chunk starts right after the previous one.
NextChunkStartWithoutOverlap(char_end, chunk_overlap) == char_end + 1

\* The next chunk shares chunk_overlap characters with the one before it.
NextChunkStart(char_end, chunk_overlap) == char_end - chunk_overlap + 1

RECURSIVE SplitFrom(_, _, _, _)
SplitFrom(text, char_start, chunk_size, chunk_overlap) ==
    IF char_start + chunk_size - 1 >= Len(text)
    THEN <<Chunk(text, char_start, Len(text))>>
    ELSE LET char_end == ChunkEnd(text, char_start, chunk_size, chunk_overlap) IN
         <<Chunk(text, char_start, char_end)>>
            \o SplitFrom(text, NextChunkStart(char_end, chunk_overlap),
                         chunk_size, chunk_overlap)

\* split(text, chunk_size, chunk_overlap): the chunks, or ChunkingError for
\* chunk_size <= chunk_overlap and for an empty text.
Split(text, chunk_size, chunk_overlap) ==
    IF ChunkerRejects(chunk_size, chunk_overlap) \/ text = <<>>
    THEN [error |-> "ChunkingError", chunks |-> <<>>]
    ELSE [error |-> "none", chunks |-> SplitFrom(text, 1, chunk_size, chunk_overlap)]

TextInputs == UNION {[1..n -> Characters] : n \in 0..MaxText}

InitChunker ==
    /\ docs = [d \in Docs |-> NoDoc]
    /\ created = {}
    /\ vectors = {}
    /\ tasks = <<>>
    /\ reingest = IdleReingest
    /\ deleter = IdleDeleter
    /\ deleteFailed = FALSE
    /\ projects = [p \in Namespaces |-> NoProject]
    /\ pdeleter = IdleProjectDeleter
    /\ query = IdleQuery
    /\ chat = NoChat
    /\ \E text \in TextInputs, chunk_size \in 1..MaxChunkSize,
          chunk_overlap \in 0..MaxChunkSize :
         rag = [op |-> "split", text |-> text, chunk_size |-> chunk_size,
                chunk_overlap |-> chunk_overlap, done |-> FALSE,
                error |-> "none", chunks |-> <<>>]

SplitText ==
    /\ rag.op = "split" /\ ~rag.done
    /\ LET r == Split(rag.text, rag.chunk_size, rag.chunk_overlap) IN
       rag' = [rag EXCEPT !.done = TRUE, !.error = r.error, !.chunks = r.chunks]
    /\ UNCHANGED <<docs, created, vectors, tasks, reingest, deleter, deleteFailed,
                   projects, pdeleter, query, chat>>

NextChunker == SplitText

SpecChunker == InitChunker /\ [][NextChunker]_vars

(***************************************************************************)
(* One ingestion as a function of what the loader returns, every call      *)
(* succeeding (ingestion.py:77-134).  A page is its length; its text has   *)
(* no separator, so the chunker cuts it after chunk_size characters.       *)
(***************************************************************************)
PageLengthUnit == 500
PageLengths == {PageLengthUnit * k : k \in 1..MaxPageUnits}
PageInputs == UNION {[1..n -> PageLengths] : n \in 0..MaxScenarioPages}

\* The text of the pages, one after the other.
TextOf(pages) == [i \in 1..SumSeq(pages) |-> "a"]

NoIngestResult == [status |-> "none", message |-> "", chunk_count |-> 0,
                   page_count |-> 0, character_count |-> 0]

IngestResult(pages, chunk_size, chunk_overlap) ==
    IF pages = <<>>
    THEN [status |-> FAILED, message |-> "No content extracted from document",
          chunk_count |-> 0, page_count |-> 0, character_count |-> 0]
    ELSE LET r == Split(TextOf(pages), chunk_size, chunk_overlap) IN
         IF r.error # "none"
         THEN [status |-> FAILED, message |-> ErrorPrefix(r.error),
               chunk_count |-> 0, page_count |-> 0, character_count |-> 0]
         ELSE [status |-> COMPLETED, message |-> "Document processed successfully",
               chunk_count |-> Len(r.chunks), page_count |-> Len(pages),
               character_count |-> SumSeq(pages)]

InitScenario ==
    /\ docs = [d \in Docs |-> NoDoc]
    /\ created = {}
    /\ vectors = {}
    /\ tasks = <<>>
    /\ reingest = IdleReingest
    /\ deleter = IdleDeleter
    /\ deleteFailed = FALSE
    /\ projects = [p \in Namespaces |-> NoProject]
    /\ pdeleter = IdleProjectDeleter
    /\ query = IdleQuery
    /\ chat = NoChat
    /\ \E pages \in PageInputs :
         rag = [op |-> "ingest", pages |-> pages,
                chunk_size |-> DefaultChunkSize, chunk_overlap |-> DefaultChunkOverlap,
                done |-> FALSE, result |-> NoIngestResult]

Ingest ==
    /\ rag.op = "ingest" /\ ~rag.done
    /\ rag' = [rag EXCEPT !.done = TRUE,
                          !.result = IngestResult(rag.pages, rag.chunk_size,
                                                  rag.chunk_overlap)]
    /\ UNCHANGED <<docs, created, vectors, tasks, reingest, deleter, deleteFailed,
                   projects, pdeleter, query, chat>>

NextScenario == Ingest

SpecScenario == InitScenario /\ [][NextScenario]_vars

(***************************************************************************)
(* The retrieval engine, similarity strategy (spec section 4.3).  A        *)
(* candidate is a chunk_id with its similarity score.                      *)
(***************************************************************************)
\* A ranking that breaks ties by descending chunk_id.
RankedBeforeDescendingId(a, b) ==
    a.score > b.score \/ (a.score = b.score /\ a.chunk_id > b.chunk_id)

\* Descending score; ties broken by ascending chunk_id.
RankedBefore(a, b) ==
    a.score > b.score \/ (a.score = b.score /\ a.chunk_id < b.chunk_id)

Best(candidates) ==
    CHOOSE a \in candidates : \A b \in candidates \ {a} : RankedBefore(a, b)

RECURSIVE Rank(_)
Rank(candidates) ==
    IF candidates = {} THEN <<>>
    ELSE <<Best(candidates)>> \o Rank(candidates \ {Best(candidates)})

\* retrieve(..., top_k, strategy=similarity): the ranking cut after top_k
Retrieve(candidates, top_k) ==
    LET ranked == Rank(candidates) IN
    SubSeq(ranked, 1, IF Len(ranked) < top_k THEN Len(ranked) ELSE top_k)

\* query.py:239-250: one entry per returned chunk, in the order returned,
\* with the score at the same index
SimilarChunks(result) ==
    [i \in DOMAIN result |-> [chunk_id |-> result[i].chunk_id,
                              relevance_score |-> result[i].score]]

\* The candidate sets: every chunk id is absent or has one score.
CandidateInputs ==
    {{[chunk_id |-> c, score |-> f[c]] : c \in {x \in DOMAIN f : f[x] >= 0}} :
        f \in [1..MaxCandidates -> -1..MaxScore]}

InitRetrieve ==
    /\ docs = [d \in Docs |-> NoDoc]
    /\ created = {}
    /\ vectors = {}
    /\ tasks = <<>>
    /\ reingest = IdleReingest
    /\ deleter = IdleDeleter
    /\ deleteFailed = FALSE
    /\ projects = [p \in Namespaces |-> NoProject]
    /\ pdeleter = IdleProjectDeleter
    /\ query = IdleQuery
    /\ chat = NoChat
    /\ \E candidates \in CandidateInputs, top_k \in 1..MaxTopK :
         rag = [op |-> "retrieve", candidates |-> candidates, top_k |-> top_k,
                done |-> FALSE, chunks |-> <<>>]

\* find_similar_chunks: retrieve, then the response in the same order
FindSimilarChunks ==
    /\ rag.op = "retrieve" /\ ~rag.done
    /\ rag' = [rag EXCEPT !.done = TRUE,
                          !.chunks = SimilarChunks(Retrieve(rag.candidates, rag.top_k))]
    /\ UNCHANGED <<docs, created, vectors, tasks, reingest, deleter, deleteFailed,
                   projects, pdeleter, query, chat>>

NextRetrieve == FindSimilarChunks

SpecRetrieve == InitRetrieve /\ [][NextRetrieve]_vars

(***************************************************************************)
(* IngestionService.delete_document_vectors called in succession on a      *)
(* store that holds vectors of several documents and namespaces.           *)
(***************************************************************************)
StoredDocs == {"d1", "d2"}

\* A call that reports success whatever the gateway did.
DeleteDocumentVectorsReturnTrue(raised) == TRUE

\* ingestion.py:192-201: True after the gateway call, False when it raised
DeleteDocumentVectorsReturn(raised) == ~raised

StoreInputs ==
    SUBSET (UNION {ChunkVectors(ns, d, t, 1) :
                      ns \in Namespaces, d \in StoredDocs, t \in 1..MaxRuns})

InitVectors ==
    /\ docs = [d \in Docs |-> NoDoc]
    /\ created = {}
    /\ vectors \in StoreInputs
    /\ tasks = <<>>
    /\ reingest = IdleReingest
    /\ deleter = IdleDeleter
    /\ deleteFailed = FALSE
    /\ projects = [p \in Namespaces |-> NoProject]
    /\ pdeleter = IdleProjectDeleter
    /\ query = IdleQuery
    /\ chat = NoChat
    /\ \E d \in StoredDocs, ns \in Namespaces :
         rag = [op |-> "delete_vectors", document_id |-> d, project_id |-> ns,
                stores |-> <<vectors>>, raised |-> <<>>, results |-> <<>>]

\* delete_document_vectors(document_id, project_id); the gateway call either
\* completes or raises, and a call that raised removed nothing
DeleteDocumentVectors ==
    /\ rag.op = "delete_vectors"
    /\ Len(rag.results) < MaxCalls
    /\ \E raised \in BOOLEAN :
         /\ vectors' = IF raised THEN vectors
                       ELSE DeleteByDocumentId(vectors, rag.document_id, rag.project_id)
         /\ rag' = [rag EXCEPT !.stores = Append(@, vectors'),
                               !.raised = Append(@, raised),
                               !.results = Append(@, DeleteDocumentVectorsReturn(raised))]
    /\ UNCHANGED <<docs, created, tasks, reingest, deleter, deleteFailed,
                   projects, pdeleter, query, chat>>

NextVectors == DeleteDocumentVectors

SpecVectors == InitVectors /\ [][NextVectors]_vars

\* Settings updates while documents are uploaded, re-ingested and processed.
UpdateSizeInputs == {500}

NextUpdate ==
    \/ \E d \in Docs, p \in Projects, b \in BOOLEAN :
          (b => TaskBudgetUsed < MaxRuns) /\ Upload(d, p, b)
    \/ \E d \in Docs, p \in Projects, force \in BOOLEAN :
          /\ ReingestAccepted(docs[d].status, force) => TaskBudgetUsed < MaxRuns
          /\ ReingestStart(d, p, force)
    \/ ReingestReject
    \/ ReingestDelete
    \/ ReingestReset
    \/ ReingestQueue
    \/ \E t \in TaskIds : RunStart(t)
    \/ \E t \in TaskIds : RunMarkProcessing(t)
    \/ \E t \in TaskIds : RunLoad(t)
    \/ \E t \in TaskIds : RunComplete(t)
    \/ \E t \in TaskIds : RunExcept(t)
    \/ \E t \in TaskIds : RunFinally(t)
    \/ \E p \in Projects, n \in UpdateSizeInputs : UpdateProject(p, n, None)

SpecUpdate == Init /\ [][NextUpdate]_vars

(***************************************************************************)
(* The document-id validation of query_documents over projects of any      *)
(* size.  The project's documents are listed newest first, a document      *)
(* being named by its place in that list; 0 names no document of the       *)
(* project.                                                                *)
(***************************************************************************)
\* crud.get_documents_by_project: the defaults of skip and limit
DefaultSkip == 0
DefaultLimit == 100

\* crud.get_documents_by_project(db, project_id): order_by(created_at.desc())
\* .offset(skip).limit(limit).all(), as [id, status] records
GetDocumentsByProject(table, skip, limit) ==
    [i \in 1..(IF Len(table) - skip < limit
               THEN (IF Len(table) > skip THEN Len(table) - skip ELSE 0)
               ELSE limit) |->
        [id |-> skip + i, status |-> table[skip + i]]]

\* query.py:80: the ids of the COMPLETED documents among those returned
ValidDocIds(documents) ==
    {documents[i].id : i \in {j \in DOMAIN documents : documents[j].status = COMPLETED}}

\* query.py:74-87: TRUE when no id of the request raises HTTP 400
DocumentIdsAccepted(table, document_ids) ==
    \A doc_id \in document_ids :
        doc_id \in ValidDocIds(GetDocumentsByProject(table, DefaultSkip, DefaultLimit))

\* A project of n documents, all COMPLETED but the one at place k (none for
\* k = 0).
ProjectTable(n, k) == [i \in 1..n |-> IF i = k THEN PENDING ELSE COMPLETED]

\* The places a request names: the newest and the oldest document, those on
\* either side of the limit, and a document of no project.
PlacesOfInterest(n) ==
    {0} \cup ({1, DefaultLimit, DefaultLimit + 1, n} \cap (1..n))

InitDocumentIds ==
    /\ docs = [d \in Docs |-> NoDoc]
    /\ created = {}
    /\ vectors = {}
    /\ tasks = <<>>
    /\ reingest = IdleReingest
    /\ deleter = IdleDeleter
    /\ deleteFailed = FALSE
    /\ projects = [p \in Namespaces |-> NoProject]
    /\ pdeleter = IdleProjectDeleter
    /\ query = IdleQuery
    /\ chat = NoChat
    /\ \E n \in 1..(DefaultLimit + MaxExtraDocuments) :
         \E k \in PlacesOfInterest(n),
            document_ids \in (SUBSET PlacesOfInterest(n)) \ {{}} :
            rag = [op |-> "validate", table |-> ProjectTable(n, k),
                   document_ids |-> document_ids,
                   done |-> FALSE, accepted |-> FALSE]

\* query.py:74-87
ValidateDocumentIds ==
    /\ rag.op = "validate" /\ ~rag.done
    /\ rag' = [rag EXCEPT !.done = TRUE,
                          !.accepted = DocumentIdsAccepted(rag.table, rag.document_ids)]
    /\ UNCHANGED <<docs, created, vectors, tasks, reingest, deleter, deleteFailed,
                   projects, pdeleter, query, chat>>

NextDocumentIds == ValidateDocumentIds

SpecDocumentIds == InitDocumentIds /\ [][NextDocumentIds]_vars

(***************************************************************************)
(* crud.get_project_stats over a documents table.  A row is the project,   *)
(* the status and the chunk_count of a document.                           *)
(***************************************************************************)
NoRow == [project_id |-> "none", status |-> "none", chunk_count |-> 0]

\* The rows the status writes can leave: a PENDING document has chunk_count
\* 0 and a COMPLETED one at least 1.
RowInputs ==
    {[project_id |-> p, status |-> s, chunk_count |-> n] :
        p \in Namespaces, s \in {PENDING, PROCESSING, COMPLETED, FAILED},
        n \in {0, 2}}
      \ {r \in [project_id : Namespaces, status : {PENDING, COMPLETED},
                chunk_count : {0, 2}] :
            \/ (r.status = PENDING /\ r.chunk_count # 0)
            \/ (r.status = COMPLETED /\ r.chunk_count = 0)}

\* .filter(Document.project_id == project_id)
RowsOf(table, p) == {i \in DOMAIN table : table[i].project_id = p}

\* func.sum(case((Document.status == s, 1), else_=0))
CountStatus(table, p, s) ==
    Cardinality({i \in RowsOf(table, p) : table[i].status = s})

\* func.sum(Document.chunk_count) over the rows of `rows`
RECURSIVE SumChunkCount(_, _)
SumChunkCount(table, rows) ==
    IF rows = {} THEN 0
    ELSE LET i == CHOOSE x \in rows : TRUE IN
         table[i].chunk_count + SumChunkCount(table, rows \ {i})

\* Statistics whose pending_documents leaves the PROCESSING documents out.
GetProjectStatsWithoutProcessing(table, p) ==
    [document_count |-> Cardinality(RowsOf(table, p)),
     completed_documents |-> CountStatus(table, p, COMPLETED),
     failed_documents |-> CountStatus(table, p, FAILED),
     pending_documents |-> CountStatus(table, p, PENDING),
     total_chunks |-> SumChunkCount(table, RowsOf(table, p))]

\* crud.get_project_stats(db, project_id)
GetProjectStats(table, p) ==
    [document_count |-> Cardinality(RowsOf(table, p)),
     completed_documents |-> CountStatus(table, p, COMPLETED),
     failed_documents |-> CountStatus(table, p, FAILED),
     pending_documents |-> CountStatus(table, p, PENDING)
                              + CountStatus(table, p, PROCESSING),
     total_chunks |-> SumChunkCount(table, RowsOf(table, p))]

NoStats == [document_count |-> 0, completed_documents |-> 0,
            failed_documents |-> 0, pending_documents |-> 0, total_chunks |-> 0]

InitStats ==
    /\ docs = [d \in Docs |-> NoDoc]
    /\ created = {}
    /\ vectors = {}
    /\ tasks = <<>>
    /\ reingest = IdleReingest
    /\ deleter = IdleDeleter
    /\ deleteFailed = FALSE
    /\ projects = [p \in Namespaces |-> NoProject]
    /\ pdeleter = IdleProjectDeleter
    /\ query = IdleQuery
    /\ chat = NoChat
    /\ \E table \in [1..MaxStatsDocuments -> RowInputs \cup {NoRow}],
          p \in Projects :
         rag = [op |-> "stats", table |-> table, project_id |-> p,
                done |-> FALSE, stats |-> NoStats]

\* projects.py:118: stats_data = crud.get_project_stats(db, project_id)
ReadProjectStats ==
    /\ rag.op = "stats" /\ ~rag.done
    /\ rag' = [rag EXCEPT !.done = TRUE,
                          !.stats = GetProjectStats(rag.table, rag.project_id)]
    /\ UNCHANGED <<docs, created, vectors, tasks, reingest, deleter, deleteFailed,
                   projects, pdeleter, query, chat>>

NextStats == ReadProjectStats

SpecStats == InitStats /\ [][NextStats]_vars

(***************************************************************************)
(* Requests of any user.  Every handler starts with                        *)
(* crud.get_project(db, project_id, owner_id=current_user.id) and answers  *)
(* HTTP 404 "Project not found" when it returns nothing.                   *)
(***************************************************************************)
\* A lookup that takes the project of any owner.
GetProjectOfAnyOwner(p, owner_id) == projects[p]

\* crud.get_project: the project with this id and this owner, if any
GetProject(p, owner_id) ==
    IF projects[p].exists /\ projects[p].owner_id = owner_id
    THEN projects[p] ELSE NoProject

\* The response of a request that ended at its first checks, or of a read.
Response(user, p, status, detail) ==
    [op |-> "response", user |-> user, project |-> p,
     status |-> status, detail |-> detail]

\* raise HTTPException(status_code=404, detail="Project not found")
ProjectNotFound(user, p) ==
    /\ rag' = Response(user, p, 404, "Project not found")
    /\ UNCHANGED <<docs, created, vectors, tasks, reingest, deleter, deleteFailed,
                   projects, pdeleter, query, chat>>

\* documents.py:146-151, upload_document
UploadBy(user, d, p, process_immediately) ==
    IF GetProject(p, user).exists
    THEN Upload(d, p, process_immediately)
    ELSE ProjectNotFound(user, p)

\* documents.py:388-417, get_document_status: a read
StatusBy(user, d, p) ==
    IF GetProject(p, user).exists
    THEN /\ rag' = IF docs[d].exists /\ docs[d].project_id = p
                   THEN Response(user, p, 200, docs[d].status)
                   ELSE Response(user, p, 404, "Document not found")
         /\ UNCHANGED <<docs, created, vectors, tasks, reingest, deleter,
                        deleteFailed, projects, pdeleter, query, chat>>
    ELSE ProjectNotFound(user, p)

\* documents.py:440-445, reingest_document
ReingestBy(user, d, p, force) ==
    IF GetProject(p, user).exists
    THEN ReingestStart(d, p, force)
    ELSE ProjectNotFound(user, p)

\* documents.py:513-518, delete_document
DeleteDocumentBy(user, d, p) ==
    IF GetProject(p, user).exists
    THEN DeleteStart(d, p)
    ELSE ProjectNotFound(user, p)

\* projects.py:224-229, delete_project
DeleteProjectBy(user, p) ==
    IF GetProject(p, user).exists
    THEN DeleteProjectStart(p)
    ELSE ProjectNotFound(user, p)

\* query.py:54-64, query_documents
QueryBy(user, p, document_ids, session_id) ==
    IF GetProject(p, user).exists
    THEN QueryStart(p, document_ids, session_id)
    ELSE ProjectNotFound(user, p)

\* No request of the owner is being served.
NoRequestInProgress ==
    /\ reingest.pc = "idle" /\ deleter.pc = "idle"
    /\ pdeleter.pc = "idle" /\ query.pc = "idle"

\* The owner's request starts when no other request of the owner is being
\* served; a request that is answered 404 comes at any time.
Served(user, p) == GetProject(p, user).exists => NoRequestInProgress

\* Both projects hold documents; the requests of both users and the steps
\* the handlers go on with.
NextOwnership ==
    \/ \E u \in Users, d \in Docs, p \in Namespaces, b \in BOOLEAN :
          /\ Served(u, p)
          /\ b => TaskBudgetUsed < MaxRuns
          /\ UploadBy(u, d, p, b)
    \/ \E u \in Users, d \in ProjectDocs, p \in Namespaces :
          Served(u, p) /\ StatusBy(u, d, p)
    \/ \E u \in Users, d \in Docs, p \in Namespaces, force \in BOOLEAN :
          /\ Served(u, p)
          /\ ReingestAccepted(docs[d].status, force) => TaskBudgetUsed < MaxRuns
          /\ ReingestBy(u, d, p, force)
    \/ ReingestReject
    \/ ReingestDelete
    \/ ReingestReset
    \/ ReingestQueue
    \/ \E u \in Users, d \in Docs, p \in Namespaces :
          Served(u, p) /\ DeleteDocumentBy(u, d, p)
    \/ DeleteVectors
    \/ DeleteRecord
    \/ \E u \in Users, p \in Namespaces : Served(u, p) /\ DeleteProjectBy(u, p)
    \/ DeleteProjectVectors
    \/ DeleteProjectRecords
    \/ \E u \in Users, p \in Namespaces :
          Served(u, p) /\ QueryBy(u, p, {}, NoSessionId)
    \/ QueryCheckCompleted
    \/ QueryCheckDocumentIds
    \/ QueryEngine
    \/ QueryResolveSession
    \/ QueryStoreQuestion
    \/ QueryStoreAnswer
    \/ QueryRespond
    \/ QueryEnd

SpecOwnership == InitQuery /\ [][NextOwnership]_vars

TypeOK ==
    /\ \A d \in Docs : docs[d].exists => docs[d].status \in DocumentStatus
    /\ Len(tasks) <= MaxTasks
    /\ \A v \in vectors : v.run \in TaskIds

(***************************************************************************)
(* Properties                                                              *)
(***************************************************************************)
AcceptedPcs == {"delete", "reset", "queue"}
WroteStatus(t, status) == \E i \in DOMAIN tasks[t].writes : tasks[t].writes[i].status = status

\* Run t writes the status in this step.
RunWrites(t, status) ==
    /\ Len(tasks'[t].writes) = Len(tasks[t].writes) + 1
    /\ tasks'[t].writes[Len(tasks'[t].writes)].status = status

\* A status write of document d happens in this step.
StatusWritten(d, status) ==
    \/ \E t \in TaskIds : tasks[t].doc = d /\ RunWrites(t, status)
    \/ /\ status = PENDING
       /\ reingest.doc = d /\ ~reingest.resetDone /\ reingest'.resetDone

\* C1: no status write takes a document from PENDING straight to COMPLETED
\* or FAILED: the status just before every write of COMPLETED or FAILED is
\* PROCESSING.
C1_TerminalOnlyFromProcessing ==
    [][\A d \in Docs :
          (StatusWritten(d, COMPLETED) \/ StatusWritten(d, FAILED))
          => docs[d].status = PROCESSING]_vars

\* C2: every status write of PROCESSING happens while the document is
\* PENDING.
C2_ProcessingOnlyFromPending ==
    [][\A d \in Docs : StatusWritten(d, PROCESSING) => docs[d].status = PENDING]_vars

\* C3: after creation, the status is written to PENDING only by a
\* re-ingestion request and only when the status at that moment is COMPLETED
\* or FAILED.
C3_PendingOnlyFromTerminal ==
    [][\A d \in Docs :
          /\ StatusWritten(d, PENDING) => docs[d].status \in {COMPLETED, FAILED}
          /\ (docs[d].exists /\ docs[d].status # PENDING /\ docs'[d].status = PENDING)
                => (reingest.doc = d /\ reingest.pc = "reset")]_vars

\* A re-ingestion request for document d is accepted in this step.
Accepted(d) == reingest.pc = "idle" /\ reingest'.pc \in AcceptedPcs /\ reingest'.doc = d

\* A re-ingestion request for document d is refused in this step.
Refused(d) == reingest.pc = "idle" /\ reingest'.pc = "rejected" /\ reingest'.doc = d

\* C4: at most one run per document is between its write of PROCESSING and
\* its terminal write, and no re-ingestion request is accepted while one is.
C4_OneRunInFlight ==
    [][\A d \in Docs :
          /\ Cardinality(InFlight(d)') <= 1
          /\ Accepted(d) => InFlight(d) = {}]_vars

\* C5: runs of one document are not mutually excluded: a re-ingestion
\* request is refused only for a COMPLETED document without force, whatever
\* runs are queued or in flight, and every other request is accepted.
C5_ReingestNotExcluded ==
    [][\A d \in Docs :
          /\ Refused(d) => (docs[d].status = COMPLETED /\ ~reingest'.force)
          /\ Accepted(d) => ~(docs[d].status = COMPLETED /\ ~reingest'.force)]_vars

\* C5 witness: both re-ingestion runs of a document have finished, every
\* vector-store delete succeeded, the document is COMPLETED and the store
\* holds chunks of both runs, more than the document's chunk_count.
C5_MixedVectorSet ==
    \E d \in Docs, t1, t2 \in TaskIds :
        /\ t1 # t2
        /\ tasks[t1].doc = d /\ tasks[t2].doc = d
        /\ tasks[t1].origin = "reingest" /\ tasks[t2].origin = "reingest"
        /\ \A t \in TaskIds : tasks[t].pc = "done"
        /\ ~deleteFailed
        /\ docs[d].status = COMPLETED
        /\ \E v1, v2 \in VectorsOf(d) : v1.run = t1 /\ v2.run = t2
        /\ Cardinality(VectorsOf(d)) # docs[d].chunk_count

\* C6: when the run queued by a forced re-ingestion of a COMPLETED document
\* completes, the vectors stored under the document id are exactly the
\* chunks that run wrote.
C6_ForcedReingestReplacesVectors ==
    [][\A t \in TaskIds :
          (tasks[t].forced /\ tasks[t].pc = "complete" /\ tasks'[t].pc = "returned")
          => {v \in vectors' : v.document_id = tasks[t].doc}
               = ChunkVectors(tasks[t].ns, tasks[t].doc, t, tasks[t].chunk_count)]_vars

\* C7: an accepted re-ingestion request invokes the vector delete, then
\* resets the status, then queues the run; so no run queued by a request
\* writes vectors before that request's delete.
C7_ReingestOrder ==
    /\ reingest.resetDone => reingest.deleteInvoked
    /\ reingest.pc = "queue" => (reingest.deleteInvoked /\ reingest.resetDone)
    /\ \A t \in TaskIds : tasks[t].origin = "reingest" =>
            (tasks[t].deleteInvoked /\ tasks[t].resetDone)

\* C7 witness: a run queued by a re-ingestion request has written its chunks.
C7_QueuedRunStored ==
    \E t \in TaskIds : tasks[t].origin = "reingest" /\ tasks[t].stored

\* C8: a run writes COMPLETED only after its own add_documents returned; a
\* run whose load, chunk or store step failed never writes COMPLETED.
C8_CompletedOnlyAfterStore ==
    \A t \in TaskIds :
        /\ WroteStatus(t, COMPLETED) => (tasks[t].stored /\ ~tasks[t].failed)
        /\ tasks[t].failed => ~(tasks[t].result.returned /\ tasks[t].result.success)

\* C8 witness: a run has stored its chunks and written COMPLETED.
C8_RunCompleted ==
    \E t \in TaskIds : WroteStatus(t, COMPLETED) /\ tasks[t].stored
                       /\ docs[tasks[t].doc].status = COMPLETED

\* C9: no exception leaves ingest_document: every call returns a tuple.
C9_NoExceptionEscapes ==
    \A t \in TaskIds : tasks[t].pc \notin {"raised", "escaped"}

\* C10: the five categories have pairwise different message prefixes, and a
\* run in which a category was raised writes FAILED with that category's
\* message and returns (false, that message, 0).
C10_FailureCategoryRecorded ==
    /\ \A k1, k2 \in ErrorKinds : k1 # k2 => ErrorPrefix(k1) # ErrorPrefix(k2)
    /\ \A t \in TaskIds :
        (tasks[t].err # "none" /\ tasks[t].pc \in {"returned", "raised"}) =>
            /\ tasks[t].pc = "returned"
            /\ tasks[t].writes # <<>>
            /\ tasks[t].writes[Len(tasks[t].writes)]
                   = Wrote(FAILED, ErrorMsg(tasks[t].err))
            /\ tasks[t].result = Result(FALSE, ErrorMsg(tasks[t].err), 0)

\* Run t ended at the load stage: loader.load raised or returned nothing.
LoadFailed(t) ==
    /\ tasks[t].pc = "returned"
    /\ \/ tasks[t].err \in LoaderErrors
       \/ tasks[t].result.message = Msg("No content extracted from document")

\* C11: a run whose loader returned no content or failed has written FAILED,
\* has written nothing to the vector store (the chunker and the store were
\* not reached), and leaves the document with chunk_count 0.
C11_LoadFailureHalts ==
    \A t \in TaskIds :
        LoadFailed(t) =>
            /\ tasks[t].writes[Len(tasks[t].writes)].status = FAILED
            /\ ~tasks[t].stored
            /\ \A v \in vectors : v.run # t
            /\ docs[tasks[t].doc].chunk_count = 0

\* C12: a PENDING document has chunk_count 0 and no page_count and no
\* character_count (NULL is written 0, see NewDocument).
C12_PendingCountersReset ==
    \A d \in Docs :
        (docs[d].exists /\ docs[d].status = PENDING) =>
            /\ docs[d].chunk_count = 0
            /\ docs[d].page_count = 0
            /\ docs[d].character_count = 0

\* Run t has written COMPLETED or FAILED and is returning.
WroteTerminal(t) ==
    /\ tasks[t].pc = "returned"
    /\ tasks[t].writes # <<>>
    /\ tasks[t].writes[Len(tasks[t].writes)].status \in {COMPLETED, FAILED}

\* C13: with background tasks scheduled fairly and every call returning,
\* every run that has written PROCESSING eventually writes COMPLETED or
\* FAILED (no run stays in flight forever, and a run leaves flight only
\* with a terminal write), and no document stays PROCESSING forever.
C13_ProcessingTerminates ==
    /\ \A t \in 1..MaxTasks :
          []<>(t \in TaskIds => tasks[t].pc \notin InFlightPcs)
    /\ [](\A t \in TaskIds :
            (tasks[t].pc \in {"returned", "raised"} /\ WroteStatus(t, PROCESSING))
            => WroteTerminal(t))
    /\ \A d \in Docs : []<>(docs[d].status # PROCESSING)

\* C13 witness: a run has written PROCESSING and then a terminal status, and
\* its document is no longer PROCESSING.
C13_RunReachedTerminal ==
    \E t \in TaskIds :
        /\ WroteTerminal(t)
        /\ tasks[t].writes[1].status = PROCESSING
        /\ docs[tasks[t].doc].status \in {COMPLETED, FAILED}

\* The handler of a re-ingestion request for document d passes its force
\* check in this step, one way or the other.
Checked(d) == reingest.pc = "idle" /\ reingest'.pc # "idle" /\ reingest'.doc = d

\* C14: a re-ingestion request without force on a COMPLETED document is
\* rejected, and the rejecting handler changes neither the document record
\* nor the vector store nor the queue of runs; a request with force, or on a
\* FAILED document, is accepted.
C14_UnforcedCompletedRejected ==
    [][/\ \A d \in Docs :
            /\ (Checked(d) /\ docs[d].status = COMPLETED /\ ~reingest'.force)
                  => (Refused(d) /\ UNCHANGED <<docs, vectors, tasks>>)
            /\ (Checked(d) /\ (reingest'.force \/ docs[d].status = FAILED))
                  => Accepted(d)
       /\ (reingest.pc = "rejected" /\ reingest' # reingest)
            => (reingest' = IdleReingest /\ UNCHANGED <<docs, vectors, tasks>>)]_vars

\* C14 witness: a request on a COMPLETED document with stored chunks has been
\* rejected.
C14_RejectedCompleted ==
    /\ reingest.pc = "rejected"
    /\ docs[reingest.doc].status = COMPLETED
    /\ VectorsOf(reingest.doc) # {}

\* The delete request for document d has returned.
Deleted(d) ==
    /\ d \in created
    /\ ~docs[d].exists
    /\ ~(deleter.pc # "idle" /\ deleter.doc = d)

\* C15: once the delete request for a document has returned, the store
\* holds no vector tagged with that document id, whatever runs were in
\* flight and whether or not the vector delete succeeded.
C15_DeletedDocumentHasNoVectors ==
    \A d \in Docs : Deleted(d) => VectorsOf(d) = {}

\* The delete request for project p has returned.
ProjectDeleted(p) ==
    /\ ~projects[p].exists
    /\ ~(pdeleter.pc # "idle" /\ pdeleter.project = p)

\* C16: delete_project removes the relational records only after it invoked
\* delete_namespace, and once the delete request has returned the project's
\* namespace holds no vector, whatever runs were queued or in flight.
C16_DeletedProjectHasNoVectors ==
    /\ pdeleter.pc = "vectors" => projects[pdeleter.project].exists
    /\ \A p \in Namespaces : ProjectDeleted(p) => VectorsIn(p) = {}

\* The vectors added or removed in this step.
VectorsChanged == (vectors' \ vectors) \cup (vectors \ vectors')

\* C17: every vector is stored under the project id of its document, a run
\* only adds vectors and only to the namespace it was queued for, and a
\* re-ingestion, document-delete or project-delete request on a project
\* changes no vector outside that project's namespace.
C17_VectorEffectsInOwnNamespace ==
    [][/\ \A v \in vectors' :
            docs'[v.document_id].exists => v.namespace = docs'[v.document_id].project_id
       /\ \A v \in VectorsChanged :
            \/ /\ reingest.pc = "delete" /\ reingest' # reingest
               /\ v.namespace = reingest.ns
            \/ /\ deleter.pc = "vectors" /\ deleter' # deleter
               /\ v.namespace = deleter.ns
            \/ /\ pdeleter.pc = "vectors" /\ pdeleter' # pdeleter
               /\ v.namespace = pdeleter.project
            \/ \E t \in TaskIds :
               /\ tasks'[t] # tasks[t]
               /\ v \in vectors'
               /\ v.namespace = tasks[t].ns /\ v.document_id = tasks[t].doc]_vars

\* C17 witness: a run has stored chunks in project p1 while project p2 holds
\* vectors of its own.
C17_BothNamespacesHold ==
    \E t \in TaskIds :
        /\ tasks[t].stored /\ tasks[t].ns = "p1"
        /\ VectorsIn("p1") # {}
        /\ VectorsIn("p2") # {}

\* C18: every stored project has chunk_overlap < chunk_size.
C18_OverlapBelowSize ==
    \A p \in Namespaces :
        projects[p].exists => projects[p].chunk_overlap < projects[p].chunk_size

\* Project p has no document in status COMPLETED.
NothingCompleted(p) ==
    \A d \in DOMAIN docs :
        ~(docs[d].exists /\ docs[d].project_id = p /\ docs[d].status = COMPLETED)

\* C19: a query against a project without a COMPLETED document is rejected
\* when the statistics are read, before the engine is invoked, and the
\* rejected request stores no chat session and no message.
C19_NoCompletedDocumentsRejected ==
    [][/\ (query.pc = "stats" /\ query' # query /\ NothingCompleted(query.project))
            => /\ query'.pc = "failed" /\ query'.status = 400
               /\ ~query'.engine
               /\ chat' = chat
       /\ (query.pc = "failed" /\ query' # query)
            => (query' = IdleQuery /\ chat' = chat)]_vars

\* C19 witness: a query on a project whose only document is not COMPLETED
\* has been rejected right after the project lookup.
C19_QueryRejected ==
    /\ query.pc = "failed" /\ query.status = 400
    /\ query.checked = {"project"}
    /\ NothingCompleted(query.project)
    /\ ~query.engine /\ chat = NoChat

\* The validations a request has to pass: the session id only when the
\* request carries one.
RequiredChecks ==
    {"project", "completed_documents", "document_ids"}
        \cup (IF query.session_id = NoSessionId THEN {} ELSE {"session_id"})

\* The engine is invoked only after every validation of the request.
ValidatedBeforeEngine == query.engine => RequiredChecks \subseteq query.checked

\* The question, then the answer, are stored only after the engine returned
\* a result.
PersistedAfterResult ==
    /\ query.stored \in {<<>>, <<"user">>, <<"user", "assistant">>}
    /\ query.stored # <<>> => query.result

\* The response is returned only after both messages are stored.
RespondedAfterPersist ==
    query.pc = "responded" => query.stored = <<"user", "assistant">>

\* C20: a query request goes through VALIDATE, the engine, PERSIST and
\* RESPOND in this order: every validation (project, completed documents,
\* document_ids, session_id) is done before the engine is invoked, the two
\* messages are stored only after the engine returned a result, and the
\* response is returned only after both messages are stored.
C20_QueryStageOrder ==
    /\ ValidatedBeforeEngine
    /\ PersistedAfterResult
    /\ RespondedAfterPersist

\* C21: when the engine fails with QueryError, the request fails at once
\* with HTTP 500 and a detail that carries the error's message, the engine
\* has been invoked exactly once for the request, and no chat session or
\* message is created or changed: the step that fails leaves the chat store
\* as it is and the request has stored nothing before it.
C21_QueryErrorReported ==
    [][query'.error # NoError =>
         /\ query'.pc = "failed" /\ query'.status = 500
         /\ query'.detail.prefix = "Query processing failed: "
         /\ query'.detail.message = query'.error
         /\ query'.invocations = 1
         /\ query'.stored = <<>> /\ query'.session = NoSessionId
         /\ chat' = chat]_vars

\* C21 witness: a request failed with a QueryError after an earlier request
\* had stored its two messages.
C21_QueryErrorAfterChat ==
    /\ query.pc = "failed" /\ query.error \in QueryErrorMessages
    /\ Len(chat.messages) >= 2

\* Position of the first marker of chunk c in the answer.
FirstMarker(answer, c) ==
    CHOOSE i \in DOMAIN answer :
        answer[i] = c /\ \A j \in 1..(i - 1) : answer[j] # c

NoDuplicates(s) == \A i, j \in DOMAIN s : s[i] = s[j] => i = j

\* C22: without include_all_sources the citations are exactly the retrieved
\* chunks the answer references, without duplicates and in the order of
\* their first reference; with include_all_sources every retrieved chunk is
\* cited exactly once.
C22_CitationsMatchAnswer ==
    (rag.op = "extract_citations" /\ rag.done) =>
        LET cited == Range(rag.retrieved) \cap Range(rag.answer) IN
        /\ NoDuplicates(rag.citations)
        /\ IF rag.include_all_sources
           THEN Range(rag.citations) = Range(rag.retrieved)
           ELSE /\ Range(rag.citations) = cited
                /\ \A i, j \in DOMAIN rag.citations :
                     i < j => FirstMarker(rag.answer, rag.citations[i])
                                < FirstMarker(rag.answer, rag.citations[j])

\* C22 witness: five chunks were retrieved, the answer cites the first one
\* (twice), and the one citation is that chunk.
C22_OneOfFiveCited ==
    /\ rag.op = "extract_citations" /\ rag.done
    /\ ~rag.include_all_sources
    /\ Len(rag.retrieved) = 5 /\ rag.answer = <<1, 1>>
    /\ rag.citations = <<1>>

\* The run the upload of d has queued.
UploadRuns(d) == {t \in TaskIds : tasks[t].doc = d /\ tasks[t].origin = "upload"}

StaysArchived(p) ==
    /\ projects[p].exists /\ projects[p].status = ARCHIVED
    /\ projects'[p].exists /\ projects'[p].status = ARCHIVED

\* C24: while a project is archived, no document is added to it, deleted
\* from it or changed (status included), no run is queued for it, and its
\* settings and its stored vectors stay as they are.
C24_ArchivedProjectReadOnly ==
    [][\A p \in Projects :
          StaysArchived(p) =>
            /\ \A d \in DOMAIN docs :
                  (docs[d].project_id = p \/ docs'[d].project_id = p)
                  => docs'[d] = docs[d]
            /\ {v \in vectors' : v.namespace = p} = {v \in vectors : v.namespace = p}
            /\ projects'[p] = projects[p]
            /\ \A t \in DOMAIN tasks' :
                  (t \notin DOMAIN tasks) => tasks'[t].ns # p]_vars

\* Run t was given a chunk_overlap that is not below its chunk_size.
OverlapNotBelowSize(t) == tasks[t].chunk_overlap >= tasks[t].chunk_size

\* C25: a run whose chunk_overlap is greater than or equal to its chunk_size
\* and whose document loads fails in the chunking step with ChunkingError:
\* its load-and-chunk step writes no vector and leaves only through a loader
\* failure, an empty load or ChunkingError; the run never stores, never
\* writes COMPLETED, and a ChunkingError ends it FAILED with the
\* chunking message.
C25_InvalidOverlapFailsChunking ==
    /\ [][\A t \in DOMAIN tasks :
            (OverlapNotBelowSize(t) /\ tasks[t].pc = "load" /\ tasks'[t].pc # "load")
            => /\ vectors' = vectors
               /\ \/ tasks'[t].pc = "except"
                     /\ tasks'[t].err \in LoaderErrors \cup {"ChunkingError"}
                  \/ /\ tasks'[t].pc = "returned"
                     /\ docs'[tasks[t].doc].status = FAILED
                     /\ docs'[tasks[t].doc].status_message.prefix
                           = "No content extracted from document"]_vars
    /\ [](\A t \in TaskIds :
            OverlapNotBelowSize(t)
            => /\ ~WroteStatus(t, COMPLETED)
               /\ ~tasks[t].stored /\ tasks[t].pc # "complete"
               /\ \A v \in vectors : v.run # t
               /\ (tasks[t].pc = "returned" /\ tasks[t].err = "ChunkingError")
                  => /\ tasks[t].writes[Len(tasks[t].writes)].status = FAILED
                     /\ tasks[t].writes[Len(tasks[t].writes)].message.prefix
                           = "Failed to chunk document: "
                     /\ docs[tasks[t].doc].status = FAILED)

\* C25 witness: a run with chunk_overlap = chunk_size has ended FAILED with
\* the chunking message.
C25_EqualOverlapFailed ==
    \E t \in TaskIds :
        /\ tasks[t].chunk_overlap = tasks[t].chunk_size
        /\ tasks[t].pc = "returned" /\ tasks[t].err = "ChunkingError"
        /\ docs[tasks[t].doc].status = FAILED
        /\ docs[tasks[t].doc].status_message.prefix = "Failed to chunk document: "

\* The text the chunks give back: the first chunk, then of every later
\* chunk the characters that lie behind the end of the chunk before it.
RECURSIVE Reconstruct(_, _)
Reconstruct(chunks, covered) ==
    IF chunks = <<>> THEN <<>>
    ELSE LET c == Head(chunks) IN
         SubSeq(c.text, covered - c.char_start + 2, Len(c.text))
            \o Reconstruct(Tail(chunks), c.char_end)

\* C26: for chunk_size > chunk_overlap >= 0 and a non-empty text the chunks
\* run from the first to the last character without a gap, give the text
\* back exactly, and every two consecutive chunks, except possibly the last
\* two, share exactly chunk_overlap characters.
C26_ChunksCoverText ==
    (/\ rag.op = "split" /\ rag.done
     /\ rag.chunk_size > rag.chunk_overlap /\ rag.text # <<>>)
    => LET chunks == rag.chunks
           n == Len(chunks) IN
       /\ rag.error = "none" /\ n >= 1
       /\ chunks[1].char_start = 1 /\ chunks[n].char_end = Len(rag.text)
       /\ \A i \in 1..n : chunks[i].text
                            = SubSeq(rag.text, chunks[i].char_start, chunks[i].char_end)
       /\ \A i \in 1..(n - 1) :
             /\ chunks[i + 1].char_start > chunks[i].char_start
             /\ chunks[i + 1].char_start <= chunks[i].char_end + 1
             /\ chunks[i + 1].char_end > chunks[i].char_end
       /\ Reconstruct(chunks, 0) = rag.text
       /\ \A i \in 1..(n - 2) :
             chunks[i].char_end - chunks[i + 1].char_start + 1 = rag.chunk_overlap

\* C26 witness: a text cut into three chunks or more, one of them at a
\* separator, with a non-zero overlap.
C26_ThreeChunksWithOverlap ==
    /\ rag.op = "split" /\ rag.done /\ rag.error = "none"
    /\ rag.chunk_overlap > 0 /\ Len(rag.chunks) >= 3
    /\ \E i \in 1..(Len(rag.chunks) - 1) :
          /\ rag.text[rag.chunks[i].char_end] = " "
          /\ Len(rag.chunks[i].text) < rag.chunk_size

\* C27: a document of 3 pages and 4,500 characters, ingested with
\* chunk_size 1000 and chunk_overlap 200, ends COMPLETED with 5 chunks,
\* chunk_count 5 and page_count 3.
C27_ScenarioFiveChunks ==
    (/\ rag.op = "ingest" /\ rag.done
     /\ Len(rag.pages) = 3 /\ SumSeq(rag.pages) = 4500
     /\ rag.chunk_size = 1000 /\ rag.chunk_overlap = 200)
    => /\ rag.result.status = COMPLETED
       /\ rag.result.chunk_count = 5
       /\ rag.result.page_count = 3

\* a comes before b: higher score, or the same score and the lower chunk_id.
ComesBefore(a_id, a_score, b_id, b_score) ==
    a_score > b_score \/ (a_score = b_score /\ a_id < b_id)

\* C28: similarity retrieval returns at most top_k chunks, all of them
\* candidates with their scores, ordered by descending score and, for equal
\* scores, ascending chunk_id; no candidate left out comes before a returned
\* one, and fewer than top_k are returned only when there are no more.
C28_SimilarityOrder ==
    (rag.op = "retrieve" /\ rag.done) =>
        LET r == rag.chunks IN
        /\ Len(r) <= rag.top_k
        /\ Len(r) = rag.top_k \/ Len(r) = Cardinality(rag.candidates)
        /\ \A i \in DOMAIN r :
              [chunk_id |-> r[i].chunk_id, score |-> r[i].relevance_score]
                 \in rag.candidates
        /\ \A i, j \in DOMAIN r :
              i < j => ComesBefore(r[i].chunk_id, r[i].relevance_score,
                                   r[j].chunk_id, r[j].relevance_score)
        /\ \A c \in rag.candidates :
              (\A i \in DOMAIN r : r[i].chunk_id # c.chunk_id)
              => \A i \in DOMAIN r :
                    ComesBefore(r[i].chunk_id, r[i].relevance_score,
                                c.chunk_id, c.score)

\* C28 witness: three candidates, two of them with the same score, top_k 2:
\* the tie decides which one is returned.
C28_TieCutByTopK ==
    /\ rag.op = "retrieve" /\ rag.done
    /\ rag.top_k = 2 /\ Cardinality(rag.candidates) = 3
    /\ Len(rag.chunks) = 2
    /\ \E c \in rag.candidates :
          /\ c.score = rag.chunks[2].relevance_score
          /\ c.chunk_id > rag.chunks[2].chunk_id

\* The vectors of the call's document in the call's namespace.
Tagged(store) ==
    {v \in store : v.document_id = rag.document_id /\ v.namespace = rag.project_id}

\* C29: deleting a document's vectors is idempotent: a call on a store with no
\* vector of the document leaves the store unchanged and reports success, a
\* second call leaves the store of the first call, and no call removes a
\* vector of another document.
C29_DeleteVectorsIdempotent ==
    rag.op = "delete_vectors" =>
        /\ \A i \in DOMAIN rag.results :
              /\ Tagged(rag.stores[i]) = {}
                    => rag.stores[i + 1] = rag.stores[i] /\ rag.results[i]
              /\ rag.stores[i] \ Tagged(rag.stores[i]) \subseteq rag.stores[i + 1]
        /\ Len(rag.results) >= 2 => rag.stores[3] = rag.stores[2]

\* C29 as the code has it: no call removes a vector of another document or
\* adds one; a call reports success exactly when the gateway did not raise,
\* and then no vector of the document is left; a call on a store with no
\* vector of the document leaves the store unchanged; a call that follows a
\* call that reported success leaves the store unchanged.
C29_SuccessfulDeleteIdempotent ==
    rag.op = "delete_vectors" =>
        \A i \in DOMAIN rag.results :
            /\ rag.stores[i + 1] \subseteq rag.stores[i]
            /\ rag.stores[i] \ Tagged(rag.stores[i]) \subseteq rag.stores[i + 1]
            /\ rag.results[i] <=> ~rag.raised[i]
            /\ rag.results[i] => Tagged(rag.stores[i + 1]) = {}
            /\ Tagged(rag.stores[i]) = {} => rag.stores[i + 1] = rag.stores[i]
            /\ (i > 1 /\ rag.results[i - 1]) => rag.stores[i + 1] = rag.stores[i]

\* C29 witness: a first call removed the document's vectors and left those of
\* another document, and a second call, on a store without vectors of the
\* document, reported success too.
C29_SecondDeleteNoOp ==
    /\ rag.op = "delete_vectors"
    /\ Len(rag.results) >= 2
    /\ rag.results[1] /\ rag.results[2]
    /\ Tagged(rag.stores[1]) # {}
    /\ rag.stores[2] # {}
    /\ rag.stores[3] = rag.stores[2]

\* Run t writes COMPLETED in this step.
WritesCompleted(t) ==
    /\ t \in DOMAIN tasks /\ t \in DOMAIN tasks'
    /\ tasks[t].pc = "complete"
    /\ tasks'[t].pc = "returned"

RequestedSetting(requested, of_project) ==
    IF requested # None THEN requested ELSE of_project

\* C32: the run queued by a re-ingestion request gets, for chunk_size and for
\* chunk_overlap, the request's value when the request gives one (0 included)
\* and the project's value only when the request gives none.
C32_RequestSettingsUsed ==
    [][/\ \A d \in Docs, p \in Projects, force \in BOOLEAN,
             n \in ReingestSizeInputs, o \in ReingestOverlapInputs :
             (ReingestStartWith(d, p, force, n, o) /\ reingest'.pc # "rejected")
             => /\ reingest'.chunk_size
                      = RequestedSetting(n, projects[p].chunk_size)
                /\ reingest'.chunk_overlap
                      = RequestedSetting(o, projects[p].chunk_overlap)
       /\ ReingestQueue
             => /\ tasks'[Len(tasks')].chunk_size = reingest.chunk_size
                /\ tasks'[Len(tasks')].chunk_overlap = reingest.chunk_overlap]_vars

\* C33: an update of a project's chunk settings changes no document, no
\* stored vector and no request in progress and queues no run, and a queued
\* run keeps the chunk settings it was queued with, whatever the project's
\* settings become.
C33_SettingsUpdateFrame ==
    [][/\ (\E p \in Projects, n \in UpdateSizeInputs : UpdateProject(p, n, None))
             => UNCHANGED <<docs, vectors, tasks, reingest, created>>
       /\ \A t \in DOMAIN tasks :
             /\ t \in DOMAIN tasks'
             /\ tasks'[t].chunk_size = tasks[t].chunk_size
             /\ tasks'[t].chunk_overlap = tasks[t].chunk_overlap]_vars

\* C33 witness: the project's chunk_size was updated after a run was queued;
\* the run is in progress with the chunk_size it was queued with.
C33_RunKeepsQueuedSettings ==
    \E t \in DOMAIN tasks :
        /\ tasks[t].pc = "load"
        /\ projects[tasks[t].ns].exists
        /\ tasks[t].chunk_size = DefaultChunkSize
        /\ projects[tasks[t].ns].chunk_size = 500

\* C34: an upload answers with its document PENDING, and an accepted
\* re-ingestion request answers with its document PENDING and chunk_count 0,
\* however the background runs are interleaved with the request.
C34_ResponsesPending ==
    [][/\ \A d \in Docs, p \in Projects, b \in BOOLEAN :
             Upload(d, p, b) => docs'[d].status = PENDING
       /\ ReingestQueue
             => /\ ReingestResponse.status = PENDING
                /\ ReingestResponse.chunk_count = 0]_vars

\* The upload half of C34 alone.
UploadResponsePending ==
    [][\A d \in Docs, p \in Projects, b \in BOOLEAN :
             Upload(d, p, b) => docs'[d].status = PENDING]_vars

\* C35: a query with document ids passes the validation exactly when every
\* id names a COMPLETED document of the project, however many documents the
\* project has.
C35_DocumentIdsValidated ==
    (rag.op = "validate" /\ rag.done) =>
        (rag.accepted <=>
            \A doc_id \in rag.document_ids :
                /\ doc_id \in DOMAIN rag.table
                /\ rag.table[doc_id] = COMPLETED)

\* The validation of C35 in projects of at most 100 documents.
DocumentIdsValidatedUpToLimit ==
    (rag.op = "validate" /\ rag.done /\ Len(rag.table) <= 100) =>
        (rag.accepted <=>
            \A doc_id \in rag.document_ids :
                /\ doc_id \in DOMAIN rag.table
                /\ rag.table[doc_id] = COMPLETED)

\* The status code the session check of the request is to answer with:
\* invalid format and wrong project are 400, session not found is 404.
SessionErrorStatus ==
    IF query.session_id = MalformedSessionId THEN 400
    ELSE IF ChatSessions(query.session_id) = {} THEN 404
    ELSE 400

\* C36: a query whose session_id is malformed, names no chat session or names
\* a session of another project is answered with the client error of that
\* case, not with an internal error, and stores no chat message.
C36_SessionErrorsSpecific ==
    (query.pc = "failed" /\ "session_id" \in query.checked) =>
        /\ query.status = SessionErrorStatus
        /\ query.stored = <<>>

\* The second half of C36 alone: a query rejected for its session_id stores
\* no chat message.
SessionErrorStoresNothing ==
    [][(query'.pc = "failed" /\ "session_id" \in query'.checked)
          => (query'.stored = <<>> /\ chat'.messages = chat.messages)]_vars

\* Run t starts in this step and finds no record of its document.
StartsWithoutRecord(t) ==
    /\ t \in DOMAIN tasks /\ t \in DOMAIN tasks'
    /\ tasks[t].pc = "queued"
    /\ tasks'[t].pc # "queued"
    /\ ~docs[tasks[t].doc].exists

\* C37: ingest_document called for a document that has no record returns
\* (false, "Document not found", 0) at once: it writes no status, calls no
\* loader and no vector store.
C37_MissingDocumentReturns ==
    /\ [][\A t \in TaskIds :
            StartsWithoutRecord(t) =>
                /\ tasks'[t].pc = "returned"
                /\ tasks'[t].result.returned
                /\ ~tasks'[t].result.success
                /\ tasks'[t].result.message.prefix = "Document not found"
                /\ tasks'[t].result.message.detail = ""
                /\ tasks'[t].result.chunk_count = 0
                /\ tasks'[t].writes = <<>>
                /\ tasks'[t].raw_docs = <<>>
                /\ ~tasks'[t].stored
                /\ UNCHANGED <<docs, vectors>>]_vars
    /\ [](\A t \in TaskIds :
            (tasks[t].pc = "returned"
             /\ tasks[t].result.message.prefix = "Document not found")
            => (tasks[t].writes = <<>> /\ tasks[t].raw_docs = <<>>
                /\ ~tasks[t].stored))

\* C37 witness: the document was deleted before its queued run started, and
\* the run has returned "Document not found".
C37_RunOfDeletedDocument ==
    \E t \in DOMAIN tasks :
        /\ tasks[t].pc = "returned"
        /\ ~docs[tasks[t].doc].exists
        /\ tasks[t].result.returned /\ ~tasks[t].result.success
        /\ tasks[t].result.message.prefix = "Document not found"
        /\ tasks[t].writes = <<>>

\* The documents of the project read, and those of them in one of `statuses`.
StatsDocuments == {i \in DOMAIN rag.table : rag.table[i].project_id = rag.project_id}
StatsDocumentsIn(statuses) == {i \in StatsDocuments : rag.table[i].status \in statuses}

\* The chunk_count of the first n documents of the table that are the
\* project's.
RECURSIVE ChunksUpTo(_)
ChunksUpTo(n) ==
    IF n = 0 THEN 0
    ELSE ChunksUpTo(n - 1)
           + (IF n \in StatsDocuments THEN rag.table[n].chunk_count ELSE 0)

\* C38: the statistics of a project partition its documents: document_count
\* is completed_documents + failed_documents + pending_documents, where
\* pending_documents counts the PENDING and the PROCESSING documents, and
\* total_chunks is the sum of the chunk_count of the project's documents.
C38_StatsPartition ==
    (rag.op = "stats" /\ rag.done) =>
        /\ rag.stats.document_count = Cardinality(StatsDocuments)
        /\ rag.stats.document_count
              = rag.stats.completed_documents + rag.stats.failed_documents
                  + rag.stats.pending_documents
        /\ rag.stats.completed_documents = Cardinality(StatsDocumentsIn({COMPLETED}))
        /\ rag.stats.failed_documents = Cardinality(StatsDocumentsIn({FAILED}))
        /\ rag.stats.pending_documents
              = Cardinality(StatsDocumentsIn({PENDING, PROCESSING}))
        /\ rag.stats.total_chunks = ChunksUpTo(Len(rag.table))

\* C38 witness: the statistics of a project with a PROCESSING, a COMPLETED
\* and a FAILED document, beside which no other document is read.
C38_StatsOfMixedProject ==
    /\ rag.op = "stats" /\ rag.done
    /\ StatsDocumentsIn({PROCESSING}) # {}
    /\ StatsDocumentsIn({COMPLETED}) # {}
    /\ StatsDocumentsIn({FAILED}) # {}
    /\ rag.stats.document_count = 3
    /\ rag.stats.pending_documents = 1
    /\ rag.stats.total_chunks >= 2

\* A request of `user` that names project p, in this step.
RequestBy(user, p) ==
    \/ \E d \in Docs, b \in BOOLEAN : UploadBy(user, d, p, b)
    \/ \E d \in ProjectDocs : StatusBy(user, d, p)
    \/ \E d \in Docs, force \in BOOLEAN : ReingestBy(user, d, p, force)
    \/ \E d \in Docs : DeleteDocumentBy(user, d, p)
    \/ DeleteProjectBy(user, p)
    \/ QueryBy(user, p, {}, NoSessionId)

\* C39: an upload, status read, re-ingestion, document deletion, project
\* deletion or query of a user that names a project of another user is
\* answered project-not-found and changes no document, no stored vector, no
\* chat record and no project, and starts no request and no run.
C39_OnlyOwnerActs ==
    [][\A user \in Users, p \in Namespaces :
          (projects[p].exists /\ projects[p].owner_id # user /\ RequestBy(user, p))
          => /\ rag'.op = "response"
             /\ rag'.status = 404
             /\ rag'.detail = "Project not found"
             /\ UNCHANGED <<docs, vectors, chat, projects, tasks, created,
                            reingest, deleter, pdeleter, query>>]_vars

\* C39 witness: a request of the other user on a project that holds a
\* COMPLETED document, vectors and chat messages was answered
\* project-not-found.
C39_ForeignRequestRejected ==
    /\ rag.op = "response" /\ rag.status = 404
    /\ rag.detail = "Project not found"
    /\ projects[rag.project].exists
    /\ projects[rag.project].owner_id # rag.user
    /\ \E d \in DOMAIN docs :
          /\ docs[d].exists /\ docs[d].project_id = rag.project
          /\ docs[d].status = COMPLETED
    /\ \E v \in vectors : v.namespace = rag.project
    /\ \E i \in DOMAIN chat.messages : chat.messages[i].project = rag.project

====
